---- MODULE Spec2Model ----
(***************************************************************************)
(* A model of the CLI engine: the command registry                         *)
(* (infrastructure/commandRegistry.ts), the input parser                   *)
(* (infrastructure/validators.ts), the error handler                       *)
(* (infrastructure/errorHandler.ts), the dispatcher                        *)
(* (application/cliEngine.ts), the service container                       *)
(* (infrastructure/diContainer.ts), the event emitter                      *)
(* (infrastructure/eventEmitter.ts), the plugin manager                    *)
(* (application/pluginManager.ts), the agent adapter                       *)
(* (adapters/agentInterface.ts), the retrying example command, the         *)
(* commands of the plugins and main (index.ts).  Each component has a      *)
(* specification of its own, which leaves the variables of the others as   *)
(* they are.                                                               *)
(*                                                                         *)
(* Strings that the code inspects character by character (tokens, command  *)
(* names, option keys) are sequences of one-character strings; text that   *)
(* the code only builds and passes on (messages) is a TLA+ string.         *)
(* An optional field (a TypeScript `x?: T`) is <<>> when undefined and     *)
(* <<v>> when it holds v.                                                  *)
(***************************************************************************)
EXTENDS Integers, Sequences, FiniteSets, TLC

VARIABLES
    commands,   \* CommandRecordRegistry.commands: lower-cased name -> Command
    regLog,     \* the register/unregister calls made so far, in order
    now,        \* the wall clock read by Date.now()
    call,       \* the dispatcher call in progress or last completed
    parser,     \* one run of parseArguments: its tokens, position and context
    container,  \* DIContainer: services, singletons and the calls made on it
    emitter,    \* CLIEventEmitter.listeners and the emits made so far
    plugins,    \* PluginManager.loadedPlugins and its calls
    agent,      \* ProgrammaticCLIAgent.tools and its call
    retry,      \* one run of RetryableCommand.execute
    shell       \* one run of main on the tokens of the command line

\* The components a specification of another component leaves alone.
others == <<parser, container, emitter, plugins, agent, retry, shell>>

vars == <<commands, regLog, now, call, others>>

(***************************************************************************)
(* Bounds of the model.                                                    *)
(***************************************************************************)
MaxTokens == 3
MaxClock == 1
MaxRegLog == 4

(***************************************************************************)
(* Strings.                                                                *)
(***************************************************************************)
None == <<>>
Some(v) == <<v>>

\* U+00DF LATIN SMALL LETTER SHARP S, one character of a name.
Eszett == "eszett"

sEcho == <<"e", "c", "h", "o">>
sHelp == <<"h", "e", "l", "p">>
sVersion == <<"v", "e", "r", "s", "i", "o", "n">>
sStatus == <<"s", "t", "a", "t", "u", "s">>
sX == <<"x">>
sUpperX == <<"X">>
sHi == <<"h", "i">>
sOutput == <<"o", "u", "t", "p", "u", "t">>
sFormat == <<"f", "o", "r", "m", "a", "t">>
sVerbose == <<"v", "e", "r", "b", "o", "s", "e">>
sJson == <<"j", "s", "o", "n">>

\* The text of a character sequence, for interpolation into messages.
RECURSIVE Text(_)
Text(s) == IF s = <<>> THEN "" ELSE Head(s) \o Text(Tail(s))

\* String.prototype.toLowerCase on one character.
LowerChar(c) ==
    CASE c = "E" -> "e"
      [] c = "C" -> "c"
      [] c = "H" -> "h"
      [] c = "O" -> "o"
      [] c = "X" -> "x"
      [] c = "S" -> "s"
      [] OTHER -> c

\* String.prototype.toLowerCase.
RECURSIVE ToLowerCase(_)
ToLowerCase(s) == IF s = <<>> THEN <<>> ELSE <<LowerChar(Head(s))>> \o ToLowerCase(Tail(s))

\* String.prototype.toUpperCase on one character: U+00DF has no single
\* upper-case character and maps to the two characters "SS".
UpperChar(c) ==
    CASE c = "e" -> <<"E">>
      [] c = "c" -> <<"C">>
      [] c = "h" -> <<"H">>
      [] c = "o" -> <<"O">>
      [] c = "x" -> <<"X">>
      [] c = "s" -> <<"S">>
      [] c = Eszett -> <<"S", "S">>
      [] OTHER -> <<c>>

\* String.prototype.toUpperCase.
RECURSIVE ToUpperCase(_)
ToUpperCase(s) == IF s = <<>> THEN <<>> ELSE UpperChar(Head(s)) \o ToUpperCase(Tail(s))

\* String.prototype.startsWith.
StartsWith(s, p) == Len(s) >= Len(p) /\ SubSeq(s, 1, Len(p)) = p

\* String.prototype.substring(n): the string without its first n characters.
Substring(s, n) == SubSeq(s, n + 1, Len(s))

\* String.prototype.split(sep) for a one-character separator: every segment
\* between separators, the empty ones included.
RECURSIVE SplitFrom(_, _, _)
SplitFrom(s, sep, cur) ==
    IF s = <<>> THEN <<cur>>
    ELSE IF Head(s) = sep THEN <<cur>> \o SplitFrom(Tail(s), sep, <<>>)
    ELSE SplitFrom(Tail(s), sep, Append(cur, Head(s)))

Split(s, sep) == SplitFrom(s, sep, <<>>)

\* Array.prototype.join on an array of message strings.
RECURSIVE Join(_, _)
Join(xs, sep) ==
    IF xs = <<>> THEN ""
    ELSE IF Len(xs) = 1 THEN xs[1]
    ELSE xs[1] \o sep \o Join(Tail(xs), sep)

(***************************************************************************)
(* The input parser: CLIInputValidator.parseArguments.                     *)
(***************************************************************************)
\* An option value: the boolean true, or a string.
OptTrue == [type |-> "boolean", str |-> <<>>]
OptStr(s) == [type |-> "string", str |-> s]

\* context.options[key] = value on a plain object.
SetOption(options, key, value) ==
    [k \in DOMAIN options \cup {key} |-> IF k = key THEN value ELSE options[k]]

EmptyContext ==
    [arguments |-> <<>>, options |-> <<>>, outputFormat |-> "text", verbose |-> FALSE]

\* A mutant of ApplyFlag: a flag with a special effect is not stored.
ApplyFlagSpecialOnly(ctx, flag) ==
    [ctx EXCEPT !.outputFormat = IF flag = "j" THEN "json" ELSE @,
                !.verbose = IF flag = "v" THEN TRUE ELSE @,
                !.options = IF flag \in {"j", "v"} THEN @ ELSE SetOption(@, <<flag>>, OptTrue)]

\* The body of flags.forEach for one flag character.
ApplyFlag(ctx, flag) ==
    [ctx EXCEPT !.outputFormat = IF flag = "j" THEN "json" ELSE @,
                !.verbose = IF flag = "v" THEN TRUE ELSE @,
                !.options = SetOption(@, <<flag>>, OptTrue)]

RECURSIVE ApplyFlags(_, _)
ApplyFlags(ctx, flags) ==
    IF flags = <<>> THEN ctx ELSE ApplyFlags(ApplyFlag(ctx, Head(flags)), Tail(flags))

\* The long-option branch: arg.substring(2).split('='), parts[0], parts[1].
ApplyLongOption(ctx, arg) ==
    LET parts == Split(Substring(arg, 2), "=")
        key == parts[1]
        value == IF Len(parts) > 1 THEN OptStr(parts[2]) ELSE OptTrue
    IN  IF key = sOutput \/ key = sFormat
        THEN [ctx EXCEPT !.outputFormat = IF value = OptStr(sJson) THEN "json" ELSE "text"]
        ELSE IF key = sVerbose
        THEN [ctx EXCEPT !.verbose = TRUE]
        ELSE [ctx EXCEPT !.options = SetOption(@, key, value)]

\* One iteration of the loop over args.
ParseToken(ctx, arg) ==
    IF StartsWith(arg, <<"-", "-">>) THEN ApplyLongOption(ctx, arg)
    ELSE IF StartsWith(arg, <<"-">>) THEN ApplyFlags(ctx, Substring(arg, 1))
    ELSE [ctx EXCEPT !.arguments = Append(@, arg)]

RECURSIVE ParseFrom(_, _)
ParseFrom(ctx, args) ==
    IF args = <<>> THEN ctx ELSE ParseFrom(ParseToken(ctx, Head(args)), Tail(args))

ParseArguments(args) == ParseFrom(EmptyContext, args)

(***************************************************************************)
(* The command registry: CommandRecordRegistry.  The iteration order of    *)
(* the Map (used by getAll only) is not modelled.                          *)
(***************************************************************************)
\* A mutant of RegistryRegister: the name is stored without case folding.
RegistryRegisterExact(cmds, command) ==
    [k \in DOMAIN cmds \cup {command.name} |-> IF k = command.name THEN command ELSE cmds[k]]

RegistryRegister(cmds, command) ==
    LET key == ToLowerCase(command.name)
    IN  [k \in DOMAIN cmds \cup {key} |-> IF k = key THEN command ELSE cmds[k]]

\* A mutant of RegistryUnregister: the name is deleted without case folding.
RegistryUnregisterExact(cmds, commandName) ==
    [k \in DOMAIN cmds \ {commandName} |-> cmds[k]]

RegistryUnregister(cmds, commandName) ==
    [k \in DOMAIN cmds \ {ToLowerCase(commandName)} |-> cmds[k]]

\* get: the Command, or null (None).
RegistryGet(cmds, commandName) ==
    LET key == ToLowerCase(commandName)
    IN  IF key \in DOMAIN cmds THEN Some(cmds[key]) ELSE None

RegistryExists(cmds, commandName) == ToLowerCase(commandName) \in DOMAIN cmds

EmptyRegistry == [k \in {} |-> None]

(***************************************************************************)
(* Commands.  The first four are the built-in commands of                  *)
(* application/builtinCommands.ts; the other kinds are implementations of  *)
(* the abstract class Command (domain/types.ts), one for each way its      *)
(* validate and execute can end.                                           *)
(***************************************************************************)
EchoCommand == [name |-> sEcho, kind |-> "echo"]
HelpCommand == [name |-> sHelp, kind |-> "help"]
VersionCommand == [name |-> sVersion, kind |-> "version"]
StatusCommand == [name |-> sStatus, kind |-> "status"]

ProbeKinds ==
    {"ok", "rejects", "fails", "failsBare", "throwsError", "throwsEmpty",
     "throwsString", "throwsUndefined", "validateThrows"}

ProbeCommands ==
    {[name |-> IF k = "ok" THEN sUpperX ELSE sX, kind |-> k] : k \in ProbeKinds}

\* Values a command can throw: an Error (with its class name and message),
\* a string (which has no message property), or undefined
\* (a promise rejected with no reason).
ErrorValue(name, message) == [type |-> "Error", name |-> name, message |-> Some(message)]
StringValue == [type |-> "string", name |-> "", message |-> None]
UndefinedValue == [type |-> "undefined", name |-> "", message |-> None]

\* new CommandNotFoundError(commandName)
CommandNotFoundError(commandName) ==
    ErrorValue("CommandNotFoundError", "Command not found: '" \o commandName \o "'")

\* The TypeError of reading a property of undefined.
TypeErrorValue ==
    ErrorValue("TypeError", "Cannot read properties of undefined (reading 'message')")

\* The values an agent's args map holds: strings, arrays of strings and
\* booleans.  The contexts the agent adapter builds carry such values as
\* arguments; the contexts the parser builds carry plain strings.
StrValue(s) == [type |-> "string", str |-> s, items |-> <<>>, bool |-> FALSE]
ArrayValue(items) == [type |-> "array", str |-> <<>>, items |-> items, bool |-> FALSE]
BoolValue(b) == [type |-> "boolean", str |-> <<>>, items |-> <<>>, bool |-> b]

\* The truthiness of a value: the empty string and false are falsy, every
\* array is truthy.
Truthy(v) ==
    CASE v.type = "string" -> v.str # <<>>
      [] v.type = "array" -> TRUE
      [] OTHER -> v.bool

\* Array.prototype.join(',') on an array of strings.
RECURSIVE JoinChars(_)
JoinChars(items) ==
    IF items = <<>> THEN <<>>
    ELSE IF Len(items) = 1 THEN items[1]
    ELSE items[1] \o <<",">> \o JoinChars(Tail(items))

\* String(v), the conversion parseFloat applies to its argument.
ToStringValue(v) ==
    CASE v.type = "string" -> v.str
      [] v.type = "array" -> JoinChars(v.items)
      [] OTHER -> IF v.bool THEN <<"t", "r", "u", "e">> ELSE <<"f", "a", "l", "s", "e">>

Digits == {"0", "1", "2", "3", "4", "5", "6", "7", "8", "9"}

DigitValue(c) ==
    CASE c = "0" -> 0 [] c = "1" -> 1 [] c = "2" -> 2 [] c = "3" -> 3 [] c = "4" -> 4
      [] c = "5" -> 5 [] c = "6" -> 6 [] c = "7" -> 7 [] c = "8" -> 8 [] c = "9" -> 9

\* The value of the longest prefix of digits of s, read after acc.
RECURSIVE DigitsPrefix(_, _)
DigitsPrefix(s, acc) ==
    IF s = <<>> \/ Head(s) \notin Digits THEN acc
    ELSE DigitsPrefix(Tail(s), 10 * acc + DigitValue(Head(s)))

\* parseFloat(v) for texts of digits: the number its longest prefix of
\* digits denotes, or NaN (None) when the text does not start with a digit.
\* Signs, fractions, exponents and leading white space are not modelled.
ParseFloat(v) ==
    LET text == ToStringValue(v)
    IN  IF text = <<>> \/ Head(text) \notin Digits THEN None
        ELSE Some(DigitsPrefix(text, 0))

Returns(valid, errors) == [threw |-> FALSE, error |-> None, valid |-> valid, errors |-> errors]

\* command.validate(context): the default of the abstract class accepts.
CommandValidate(command, ctx) ==
    CASE command.kind = "echo" ->
            IF Len(ctx.arguments) = 0
            THEN Returns(FALSE, <<"Message is required">>)
            ELSE Returns(TRUE, <<>>)
      [] command.kind \in {"add", "subtract", "multiply"} ->
            IF Len(ctx.arguments) < 2
            THEN Returns(FALSE, <<"Two numbers required">>)
            ELSE Returns(TRUE, <<>>)
      [] command.kind = "rejects" -> Returns(FALSE, <<"bad input", "worse input">>)
      [] command.kind = "validateThrows" ->
            [threw |-> TRUE, error |-> Some(ErrorValue("Error", "cannot validate")),
             valid |-> FALSE, errors |-> <<>>]
      [] OTHER -> Returns(TRUE, <<>>)

Result(success, data, error, message, ms) ==
    [success |-> success, data |-> data, error |-> error, message |-> message,
     executionTimeMs |-> ms]

Resolved(result) == [threw |-> FALSE, error |-> None, result |-> Some(result)]
Rejected(error) == [threw |-> TRUE, error |-> Some(error), result |-> None]

\* context.arguments.join(' ') as text.
RECURSIVE JoinTokens(_)
JoinTokens(tokens) ==
    IF tokens = <<>> THEN ""
    ELSE IF Len(tokens) = 1 THEN Text(tokens[1])
    ELSE Text(tokens[1]) \o " " \o JoinTokens(Tail(tokens))

\* The execute of the calculator commands: parseFloat of the first two
\* arguments, and the operation on them.
Calculate(kind, ctx) ==
    LET num1 == ParseFloat(ctx.arguments[1])
        num2 == ParseFloat(ctx.arguments[2])
    IN  IF num1 = None \/ num2 = None
        THEN Result(FALSE, None, Some("Invalid numbers provided"), None, 0)
        ELSE LET result == CASE kind = "add" -> num1[1] + num2[1]
                             [] kind = "subtract" -> num1[1] - num2[1]
                             [] OTHER -> num1[1] * num2[1]
                 \* The sign of the product is U+00D7 in the code.
                 sign == CASE kind = "add" -> " + "
                           [] kind = "subtract" -> " - "
                           [] OTHER -> " x "
             IN  Result(TRUE,
                        Some([num1 |-> num1[1], num2 |-> num2[1], result |-> result]),
                        None,
                        Some(ToString(num1[1]) \o sign \o ToString(num2[1]) \o " = "
                             \o ToString(result)),
                        0)

\* command.execute(context): what the promise settles to.  selfTime is the
\* executionTimeMs a probe command reports; the built-in commands report 0.
CommandExecute(command, ctx, cmds, selfTime) ==
    CASE command.kind = "echo" ->
            Resolved(Result(TRUE, Some(JoinTokens(ctx.arguments)), None,
                            Some("Echo successful"), 0))
      [] command.kind = "help" ->
            IF Len(ctx.arguments) > 0 /\ ctx.arguments[1] # <<>>
            THEN IF RegistryGet(cmds, ctx.arguments[1]) = None
                 THEN Resolved(Result(FALSE, None,
                          Some("Command not found: " \o Text(ctx.arguments[1])), None, 0))
                 ELSE Resolved(Result(TRUE,
                          Some(Text(RegistryGet(cmds, ctx.arguments[1])[1].name)), None, None, 0))
            ELSE Resolved(Result(TRUE, Some("commands"), None,
                          Some("Found " \o ToString(Cardinality(DOMAIN cmds))
                               \o " available commands"), 0))
      [] command.kind = "version" ->
            Resolved(Result(TRUE, Some("1.0.0"), None, Some("AI CLI Engine v1.0.0"), 0))
      [] command.kind = "status" ->
            Resolved(Result(TRUE, Some("running"), None, Some("CLI is operational"), 0))
      [] command.kind \in {"add", "subtract", "multiply"} ->
            Resolved(Calculate(command.kind, ctx))
      [] command.kind = "fails" ->
            Resolved(Result(FALSE, None, Some("nope"), None, selfTime))
      [] command.kind = "failsBare" ->
            Resolved(Result(FALSE, None, None, None, selfTime))
      [] command.kind = "throwsError" -> Rejected(ErrorValue("Error", "boom"))
      [] command.kind = "throwsEmpty" -> Rejected(ErrorValue("Error", ""))
      [] command.kind = "throwsString" -> Rejected(StringValue)
      [] command.kind = "throwsUndefined" -> Rejected(UndefinedValue)
      [] OTHER -> Resolved(Result(TRUE, None, None, Some("done"), selfTime))

(***************************************************************************)
(* The error handler: CLIErrorHandler.handle.  Reading error.message of    *)
(* undefined throws a TypeError; of a string it is undefined.              *)
(***************************************************************************)
\* A mutant of Handle: the message is dropped.
HandleNoMessage(error) ==
    IF error.type = "undefined"
    THEN Rejected(TypeErrorValue)
    ELSE Resolved(Result(FALSE, None, None, None, 0))

Handle(error) ==
    IF error.type = "undefined"
    THEN Rejected(TypeErrorValue)
    ELSE Resolved(Result(FALSE, None, error.message, None, 0))

(***************************************************************************)
(* The dispatcher: StandardCLIEngine.  A call is followed from its entry   *)
(* to the await of command.execute, and from the settling of that promise  *)
(* to its own return.                                                      *)
(***************************************************************************)
IdleCall ==
    [pc |-> "idle", entry |-> "none", tokens |-> <<>>, name |-> <<>>,
     ctx |-> EmptyContext, startTime |-> 0, command |-> None, phases |-> <<>>,
     validation |-> None, pending |-> None, events |-> <<>>,
     inner |-> "none", innerResult |-> None, innerThrown |-> None,
     result |-> None, thrown |-> None, settledAt |-> 0]

\* One eventEmitter.emit(event, data) made by the dispatcher.
Event(event, commandName, result, error) ==
    [event |-> event, commandName |-> commandName, result |-> result, error |-> error]

\* A mutant of CatchExecuteCommand: the failure is not reported as an event.
CatchExecuteCommandSilent(c, error, t) ==
    LET h == Handle(error)
    IN  IF h.threw
        THEN [c EXCEPT !.inner = "threw", !.innerThrown = h.error]
        ELSE [c EXCEPT !.inner = "returned",
                       !.innerResult = Some([h.result[1] EXCEPT !.executionTimeMs = t - c.startTime]),
                       !.phases = Append(@, "return")]

\* The catch block of executeCommand.
CatchExecuteCommand(c, error, t) ==
    LET h == Handle(error)
    IN  IF h.threw
        THEN [c EXCEPT !.inner = "threw", !.innerThrown = h.error]
        ELSE [c EXCEPT !.inner = "returned",
                       !.innerResult = Some([h.result[1] EXCEPT !.executionTimeMs = t - c.startTime]),
                       !.events = Append(@, Event("command:failed", Some(c.name), None, Some(error))),
                       !.phases = @ \o <<"emit", "return">>]

\* The result of executeCommand when validation reports invalid.
ValidationFailed(errors, ms) ==
    Result(FALSE, None, Some("Validation failed"), Some(Join(errors, "; ")), ms)

\* A mutant of BeginExecuteCommand: execute is called although validation
\* reported invalid.
BeginExecuteCommandNoShortCircuit(c, cmds, selfTime, t) ==
    LET found == RegistryGet(cmds, c.name)
        c1 == [c EXCEPT !.phases = Append(@, "lookup"), !.command = found]
    IN  IF found = None
        THEN CatchExecuteCommand(c1, CommandNotFoundError(Text(c.name)), t)
        ELSE LET v == CommandValidate(found[1], c.ctx)
                 c2 == [c1 EXCEPT !.phases = Append(@, "validate"), !.validation = Some(v)]
             IN  IF v.threw
                 THEN CatchExecuteCommand(c2, v.error[1], t)
                 ELSE [c2 EXCEPT !.inner = "pending",
                                 !.phases = Append(@, "execute"),
                                 !.pending = Some(CommandExecute(found[1], c.ctx, cmds, selfTime))]

\* executeCommand from its entry to the await of command.execute.
BeginExecuteCommand(c, cmds, selfTime, t) ==
    LET found == RegistryGet(cmds, c.name)
        c1 == [c EXCEPT !.phases = Append(@, "lookup"), !.command = found]
    IN  IF found = None
        THEN CatchExecuteCommand(c1, CommandNotFoundError(Text(c.name)), t)
        ELSE LET v == CommandValidate(found[1], c.ctx)
                 c2 == [c1 EXCEPT !.phases = Append(@, "validate"), !.validation = Some(v)]
             IN  IF v.threw
                 THEN CatchExecuteCommand(c2, v.error[1], t)
                 ELSE IF ~v.valid
                 THEN [c2 EXCEPT !.inner = "returned",
                                 !.innerResult = Some(ValidationFailed(v.errors, t - c.startTime)),
                                 !.phases = Append(@, "return")]
                 ELSE [c2 EXCEPT !.inner = "pending",
                                 !.phases = Append(@, "execute"),
                                 !.pending = Some(CommandExecute(found[1], c.ctx, cmds, selfTime))]

\* A mutant of ResumeExecuteCommand: the command's own executionTimeMs is kept.
ResumeExecuteCommandKeepsTime(c, t) ==
    IF c.pending[1].threw
    THEN CatchExecuteCommand(c, c.pending[1].error[1], t)
    ELSE LET r == c.pending[1].result[1]
         IN  [c EXCEPT !.inner = "returned",
                       !.innerResult = Some(r),
                       !.events = Append(@, Event("command:executed", Some(c.name), Some(r), None)),
                       !.phases = @ \o <<"emit", "return">>]

\* A mutant of ResumeExecuteCommand: a Result with success = false is
\* reported as command:failed.
ResumeExecuteCommandFailsOnFailure(c, t) ==
    IF c.pending[1].threw
    THEN CatchExecuteCommand(c, c.pending[1].error[1], t)
    ELSE LET r == [c.pending[1].result[1] EXCEPT !.executionTimeMs = t - c.startTime]
         IN  [c EXCEPT !.inner = "returned",
                       !.innerResult = Some(r),
                       !.events = Append(@, Event(IF r.success THEN "command:executed"
                                                  ELSE "command:failed",
                                                  Some(c.name), Some(r), None)),
                       !.phases = @ \o <<"emit", "return">>]

\* A mutant of ResumeExecuteCommand: a rejected execute is tried once more.
ResumeExecuteCommandRetries(c, t) ==
    IF c.pending[1].threw
    THEN CatchExecuteCommand([c EXCEPT !.phases = Append(@, "execute")],
                             c.pending[1].error[1], t)
    ELSE LET r == [c.pending[1].result[1] EXCEPT !.executionTimeMs = t - c.startTime]
         IN  [c EXCEPT !.inner = "returned",
                       !.innerResult = Some(r),
                       !.events = Append(@, Event("command:executed", Some(c.name), Some(r), None)),
                       !.phases = @ \o <<"emit", "return">>]

\* executeCommand from the settling of command.execute to its return.
ResumeExecuteCommand(c, t) ==
    IF c.pending[1].threw
    THEN CatchExecuteCommand(c, c.pending[1].error[1], t)
    ELSE LET r == [c.pending[1].result[1] EXCEPT !.executionTimeMs = t - c.startTime]
         IN  [c EXCEPT !.inner = "returned",
                       !.innerResult = Some(r),
                       !.events = Append(@, Event("command:executed", Some(c.name), Some(r), None)),
                       !.phases = @ \o <<"emit", "return">>]

\* The catch block of execute.
CatchExecute(c, error, t) ==
    LET h == Handle(error)
    IN  IF h.threw
        THEN [c EXCEPT !.pc = "threw", !.thrown = h.error, !.settledAt = t]
        ELSE [c EXCEPT !.pc = "returned", !.settledAt = t,
                       !.result = Some([h.result[1] EXCEPT !.executionTimeMs = t - c.startTime]),
                       !.events = Append(@, Event("command:failed", None, None, Some(error)))]

\* What the caller of the entry point sees once executeCommand has got as
\* far as it can: execute awaits executeCommand inside its own try block.
Settle(c, t) ==
    IF c.inner = "pending" THEN [c EXCEPT !.pc = "awaiting"]
    ELSE IF c.inner = "returned"
    THEN [c EXCEPT !.pc = "returned", !.result = c.innerResult, !.settledAt = t]
    ELSE IF c.entry = "execute" THEN CatchExecute(c, c.innerThrown[1], t)
    ELSE [c EXCEPT !.pc = "threw", !.thrown = c.innerThrown, !.settledAt = t]

\* A mutant of BeginExecute: the command name is left in context.arguments.
BeginExecuteKeepsName(tokens, cmds, selfTime, t) ==
    LET context == ParseArguments(tokens)
        c0 == [IdleCall EXCEPT !.entry = "execute", !.tokens = tokens,
                               !.startTime = t, !.phases = <<"parse">>]
    IN  IF Len(context.arguments) = 0
        THEN CatchExecute(c0, CommandNotFoundError("No command specified"), t)
        ELSE Settle(BeginExecuteCommand(
                        [c0 EXCEPT !.name = context.arguments[1], !.ctx = context],
                        cmds, selfTime, t), t)

\* execute from its entry to the await of executeCommand.
BeginExecute(tokens, cmds, selfTime, t) ==
    LET context == ParseArguments(tokens)
        c0 == [IdleCall EXCEPT !.entry = "execute", !.tokens = tokens,
                               !.startTime = t, !.phases = <<"parse">>]
    IN  IF Len(context.arguments) = 0
        THEN CatchExecute(c0, CommandNotFoundError("No command specified"), t)
        ELSE Settle(BeginExecuteCommand(
                        [c0 EXCEPT !.name = context.arguments[1],
                                   !.ctx = [context EXCEPT !.arguments = Tail(@)]],
                        cmds, selfTime, t), t)

(***************************************************************************)
(* Inputs.                                                                 *)
(***************************************************************************)
SeqsUpTo(S, n) == UNION {[1..k -> S] : k \in 0..n}

sNo == <<"n", "o">>
sDashV == <<"-", "v">>
sFormatJson == <<"-", "-">> \o sFormat \o <<"=">> \o sJson

Tokens == {sEcho, sHelp, sUpperX, sNo, sDashV, sFormatJson}
TokenLists == SeqsUpTo(Tokens, MaxTokens)

CommandNames == {sEcho, sHelp, sVersion, sX, sUpperX, sNo, <<>>}
Contexts ==
    {[EmptyContext EXCEPT !.arguments = a] : a \in SeqsUpTo({sHi, sNo}, MaxTokens - 1)}

\* The executionTimeMs values a probe command reports.
SelfTimes == {0, 5}

\* The registry after CLIBootstrap.create registered the built-in commands.
BootstrapRegistry ==
    RegistryRegister(RegistryRegister(RegistryRegister(RegistryRegister(
        EmptyRegistry, HelpCommand), VersionCommand), StatusCommand), EchoCommand)

\* The registries the dispatcher is constructed with: the bootstrap
\* registry, alone or with one more command registered by a plugin.
Registries ==
    {BootstrapRegistry} \cup {RegistryRegister(BootstrapRegistry, c) : c \in ProbeCommands}

(***************************************************************************)
(* The other components before anything has used them.                     *)
(***************************************************************************)
\* No run of parseArguments.
NoParse == [tokens |-> <<>>, i |-> 0, ctx |-> EmptyContext, returned |-> FALSE]

\* new DIContainer()
NewContainer ==
    [services |-> <<>>, singletons |-> <<>>, factories |-> {}, made |-> 0, log |-> <<>>]

\* new CLIEventEmitter(): no listeners; no call made on it yet.
NoEmitterCall ==
    [op |-> "none", event |-> "", callback |-> None, before |-> <<>>,
     deliveries |-> <<>>, threw |-> FALSE]

\* No emit is running: callbacks.forEach has no position.
NoDelivery ==
    [pc |-> "none", event |-> "", entries |-> <<>>, i |-> 0, atStart |-> <<>>,
     delivered |-> <<>>]

NewEmitter ==
    [listeners |-> <<>>, stamps |-> <<>>, ops |-> 0, last |-> NoEmitterCall,
     emitting |-> NoDelivery]

\* new PluginManager(container, commandRegistry, eventEmitter)
NewPluginManager == [loadedPlugins |-> <<>>, calls |-> <<>>, log |-> <<>>, events |-> <<>>]

\* No agent adapter has been constructed.
NoAgent ==
    [tools |-> <<>>, built |-> <<>>, pc |-> "none", name |-> <<>>, args |-> None,
     ctx |-> None, dispatched |-> FALSE, registry |-> <<>>, command |-> None,
     raised |-> None, threw |-> FALSE, outcome |-> None]

\* No run of RetryableCommand.execute.
NoRetry ==
    [pc |-> "none", retries |-> None, delay |-> None, startTime |-> 0, maxRetries |-> 0,
     delayMs |-> 0, attempt |-> 0, lastError |-> None, trace |-> <<>>, result |-> None,
     threw |-> FALSE]

\* main has not run.
NoShell == [pc |-> "none", args |-> <<>>, ctx |-> None, seen |-> None, outputFormat |-> ""]

OthersUnused ==
    /\ retry = NoRetry
    /\ shell = NoShell
    /\ parser = NoParse
    /\ container = NewContainer
    /\ emitter = NewEmitter
    /\ plugins = NewPluginManager
    /\ agent = NoAgent

(***************************************************************************)
(* The dispatcher's specification.                                         *)
(***************************************************************************)
Init ==
    /\ commands \in Registries
    /\ regLog = <<>>
    /\ now = 0
    /\ call = IdleCall
    /\ OthersUnused

\* Time passes.
Tick ==
    /\ now < MaxClock
    /\ now' = now + 1
    /\ UNCHANGED <<commands, regLog, call, others>>

\* engine.execute(tokens)
Execute(tokens) ==
    /\ call.pc = "idle"
    /\ \E selfTime \in SelfTimes : call' = BeginExecute(tokens, commands, selfTime, now)
    /\ UNCHANGED <<commands, regLog, now, others>>

\* engine.executeCommand(commandName, context)
ExecuteCommand(commandName, context) ==
    /\ call.pc = "idle"
    /\ \E selfTime \in SelfTimes :
          call' = Settle(BeginExecuteCommand(
                             [IdleCall EXCEPT !.entry = "executeCommand", !.name = commandName,
                                              !.ctx = context, !.startTime = now],
                             commands, selfTime, now), now)
    /\ UNCHANGED <<commands, regLog, now, others>>

\* The promise of command.execute settles and the call runs to its return.
ExecuteSettles ==
    /\ call.pc = "awaiting"
    /\ call' = Settle(ResumeExecuteCommand(call, now), now)
    /\ UNCHANGED <<commands, regLog, now, others>>

\* The caller has taken the outcome of the call; the dispatcher keeps
\* nothing of a call once it has returned.
Returned ==
    /\ call.pc \in {"returned", "threw"}
    /\ call' = IdleCall
    /\ UNCHANGED <<commands, regLog, now, others>>

Next ==
    \/ Tick
    \/ \E tokens \in TokenLists : Execute(tokens)
    \/ \E commandName \in CommandNames, context \in Contexts :
          ExecuteCommand(commandName, context)
    \/ ExecuteSettles
    \/ Returned

Spec == Init /\ [][Next]_vars

(***************************************************************************)
(* Properties of the dispatcher.                                           *)
(***************************************************************************)
\* The call has run as far as its return or its throw.
Done == call.pc \in {"returned", "threw"}

\* The tokens that do not start with '-', in their order.
Positionals(tokens) == SelectSeq(tokens, LAMBDA tok : ~StartsWith(tok, <<"-">>))

\* No registered command has this name in any letter case.
Unregistered(n) ==
    \A k \in DOMAIN commands : ToLowerCase(commands[k].name) # ToLowerCase(n)

NonEmpty(field) == field # None /\ field[1] # ""

ValidationInvalid ==
    /\ call.validation # None
    /\ ~call.validation[1].threw
    /\ ~call.validation[1].valid

ExecuteResolved == Done /\ call.pending # None /\ ~call.pending[1].threw
ExecuteRejected == Done /\ call.pending # None /\ call.pending[1].threw

\* C1: when validate reports invalid, execute is never called and the call
\* returns success = false, error 'Validation failed' and the validation
\* errors joined by '; ' as message.
C1_ValidationShortCircuits ==
    ValidationInvalid =>
        /\ call.pending = None
        /\ \A i \in 1..Len(call.phases) : call.phases[i] # "execute"
        /\ call.pc = "returned"
        /\ call.result = call.innerResult
        /\ ~call.result[1].success
        /\ call.result[1].error = Some("Validation failed")
        /\ call.result[1].message = Some(Join(call.validation[1].errors, "; "))
        /\ call.command[1].kind = "rejects" =>
              call.result[1].message = Some("bad input; worse input")
        /\ call.command[1].kind = "echo" =>
              call.result[1].message = Some("Message is required")

\* A command that reports two validation errors was dispatched.
C1_Witness ==
    /\ ValidationInvalid
    /\ call.command[1].kind = "rejects"
    /\ call.pc = "returned"

\* C2 as stated: when execute throws or rejects, executeCommand does not
\* throw: it returns success = false with the exception's message as error,
\* after emitting command:failed with {commandName, error}.
C2_AsStated ==
    ExecuteRejected =>
        /\ call.inner = "returned"
        /\ ~call.innerResult[1].success
        /\ call.innerResult[1].error = call.pending[1].error[1].message
        /\ call.events =
              <<Event("command:failed", Some(call.name), None, call.pending[1].error)>>

\* C3: when execute returns a Result, whatever its success field, the call
\* emits command:executed with {commandName, result} and no command:failed;
\* every command:failed carries a thrown exception.
C3_ExecutedWheneverExecuteReturns ==
    /\ ExecuteResolved =>
          /\ call.pc = "returned"
          /\ call.events = <<Event("command:executed", Some(call.name), call.result, None)>>
          /\ call.result[1].success = call.pending[1].result[1].success
    /\ \A i \in 1..Len(call.events) :
          call.events[i].event = "command:failed" =>
              /\ call.events[i].error # None
              /\ call.pending # None => call.pending[1].threw

\* A command returned a Result with success = false and command:executed
\* was emitted for it.
C3_Witness ==
    /\ ExecuteResolved
    /\ ~call.result[1].success
    /\ Len(call.events) = 1
    /\ call.events[1].event = "command:executed"

\* The call named no command, or a command that is not registered.
MissingCommand ==
    \/ call.entry = "execute" /\ Positionals(call.tokens) = <<>>
    \/ call.entry = "execute" /\ Positionals(call.tokens) # <<>>
          /\ Unregistered(Positionals(call.tokens)[1])
    \/ call.entry = "executeCommand" /\ Unregistered(call.name)

\* C4: a missing command is a failure Result with a non-empty error, never
\* a thrown exception, from execute and from executeCommand.
C4_MissingCommandIsFailureResult ==
    MissingCommand =>
        /\ call.pc = "returned"
        /\ call.thrown = None
        /\ ~call.result[1].success
        /\ NonEmpty(call.result[1].error)

\* execute was given a flag and the name of no registered command.
C4_Witness ==
    /\ call.entry = "execute"
    /\ call.tokens = <<sDashV, sNo>>
    /\ call.pc = "returned"
    /\ call.result[1].error = Some("Command not found: 'no'")

\* C5 as stated: every Result with success = false that execute or
\* executeCommand returns has a non-empty error or a non-empty message.
C5_AsStated ==
    (call.pc = "returned" /\ ~call.result[1].success) =>
        NonEmpty(call.result[1].error) \/ NonEmpty(call.result[1].message)

\* The place of a phase in the order of one call.
Rank(phase) ==
    CASE phase = "parse" -> 0
      [] phase = "lookup" -> 1
      [] phase = "validate" -> 2
      [] phase = "execute" -> 3
      [] phase = "emit" -> 4
      [] phase = "return" -> 5

\* C6: the phases of one call happen in the order lookup, validate,
\* execute, emit, return, none of them twice, and none without the lookup
\* and the validation before it.
C6_PhasesInOrder ==
    /\ \A i, j \in 1..Len(call.phases) :
          i < j => Rank(call.phases[i]) < Rank(call.phases[j])
    /\ \A i \in 1..Len(call.phases) :
          /\ call.phases[i] = "validate" => i > 1 /\ call.phases[i - 1] = "lookup"
          /\ call.phases[i] = "execute" => i > 1 /\ call.phases[i - 1] = "validate"
    /\ call.inner = "returned" => call.phases[Len(call.phases)] = "return"

\* A call went through every phase, its command having thrown.
C6_Witness ==
    /\ ExecuteRejected
    /\ call.phases = <<"lookup", "validate", "execute", "emit", "return">>

\* C7: execute dispatches the command named by the first positional token
\* and gives it the other positional tokens, in order, as arguments, with
\* the options, output format and verbosity parsed from all the tokens.
C7_FirstPositionalIsCommand ==
    (call.entry = "execute" /\ Positionals(call.tokens) # <<>>) =>
        LET positionals == Positionals(call.tokens)
        IN  /\ call.name = positionals[1]
            /\ call.command = RegistryGet(commands, positionals[1])
            /\ call.ctx.arguments = Tail(positionals)
            /\ call.ctx.options = ParseArguments(call.tokens).options
            /\ call.ctx.outputFormat = ParseArguments(call.tokens).outputFormat
            /\ call.ctx.verbose = ParseArguments(call.tokens).verbose
            /\ call.ctx.verbose = (\E i \in 1..Len(call.tokens) : call.tokens[i] = sDashV)
            /\ (call.pending # None /\ call.command = Some(EchoCommand)) =>
                  call.pending[1].result[1].data = Some(JoinTokens(Tail(positionals)))

\* execute(['-v', 'echo', 'no']) ran the echo command on ['no'].
C7_Witness ==
    /\ call.entry = "execute"
    /\ call.tokens = <<sDashV, sEcho, sNo>>
    /\ call.pc = "returned"
    /\ call.command = Some(EchoCommand)
    /\ call.result[1].data = Some("no")
    /\ call.ctx.verbose

\* C8: whatever executionTimeMs the command reports, the returned Result
\* carries the time from the entry of the call to the settling of execute,
\* on the return path and on the exception path.
C8_ExecutionTimeIsMeasured ==
    (call.pending # None /\ call.pc = "returned") =>
        call.result[1].executionTimeMs = call.settledAt - call.startTime

\* The command reported 5 ms and the call took 1.
C8_Witness ==
    /\ ExecuteResolved
    /\ call.pending[1].result[1].executionTimeMs = 5
    /\ call.result[1].executionTimeMs = 1

\* validate threw: the call never reached execute.
ValidateThrew == Done /\ call.validation # None /\ call.validation[1].threw

\* C23 as stated: a call emits at most one lifecycle event: exactly one
\* command:executed when execute returns, exactly one command:failed when no
\* command is specified, the lookup fails or validate or execute throws, and
\* none when validation reports invalid.
C23_AsStated ==
    Done =>
        /\ Len(call.events) <= 1
        /\ ExecuteResolved =>
              /\ Len(call.events) = 1
              /\ call.events[1].event = "command:executed"
        /\ (MissingCommand \/ ValidateThrew \/ ExecuteRejected) =>
              /\ Len(call.events) = 1
              /\ call.events[1].event = "command:failed"
        /\ ValidationInvalid => call.events = <<>>

(***************************************************************************)
(* The registry's specification: register and unregister calls on a new    *)
(* CommandRecordRegistry, each logged with the registry it found.          *)
(***************************************************************************)
sUpperEcho == <<"E", "C", "H", "O">>
sSharp == <<Eszett>>
sUpperSS == <<"S", "S">>
sSS == <<"s", "s">>

RegistryNames == {sEcho, sUpperEcho, sSharp, sUpperSS, sSS}

RegistryCommands ==
    {[name |-> n, kind |-> "echo"] : n \in RegistryNames} \cup {[name |-> sEcho, kind |-> "help"]}

InitRegistry ==
    /\ commands = EmptyRegistry
    /\ regLog = <<>>
    /\ now = 0
    /\ call = IdleCall
    /\ OthersUnused

\* registry.register(command)
Register(command) ==
    /\ Len(regLog) < MaxRegLog
    /\ commands' = RegistryRegister(commands, command)
    /\ regLog' = Append(regLog, [op |-> "register", name |-> command.name,
                                  command |-> Some(command), before |-> commands])
    /\ UNCHANGED <<now, call, others>>

\* registry.unregister(commandName)
Unregister(commandName) ==
    /\ Len(regLog) < MaxRegLog
    /\ commands' = RegistryUnregister(commands, commandName)
    /\ regLog' = Append(regLog, [op |-> "unregister", name |-> commandName,
                                  command |-> None, before |-> commands])
    /\ UNCHANGED <<now, call, others>>

NextRegistry ==
    \/ \E command \in RegistryCommands : Register(command)
    \/ \E commandName \in RegistryNames : Unregister(commandName)

SpecRegistry == InitRegistry /\ [][NextRegistry]_vars

\* The registry a logged call left behind.
After(i) == IF i = Len(regLog) THEN commands ELSE regLog[i + 1].before

OnlyRegisters == \A i \in 1..Len(regLog) : regLog[i].op = "register"

\* The command of the last register call of the log whose name is the same
\* as n under Same, or None.
Latest(log, n, Same(_, _)) ==
    LET hits == {i \in 1..Len(log) : log[i].op = "register" /\ Same(log[i].name, n)}
    IN  IF hits = {} THEN None
        ELSE log[CHOOSE i \in hits : \A j \in hits : j <= i].command

SameLowerCase(a, b) == ToLowerCase(a) = ToLowerCase(b)

\* Equal case-insensitively: equal once both are put in one case.
CaseInsensitiveEqual(a, b) ==
    ToLowerCase(a) = ToLowerCase(b) \/ ToUpperCase(a) = ToUpperCase(b)

LastRegistered ==
    IF regLog # <<>> /\ regLog[Len(regLog)].op = "register"
    THEN regLog[Len(regLog)].command
    ELSE None

\* C9 as stated: after a sequence of register calls, get(n) is the most
\* recently registered command whose name equals n case-insensitively, and
\* after register(cmd named N) both get(upper(N)) and get(lower(N)) are cmd.
C9_AsStated ==
    OnlyRegisters =>
        /\ \A n \in RegistryNames :
              RegistryGet(commands, n) = Latest(regLog, n, CaseInsensitiveEqual)
        /\ LastRegistered # None =>
              /\ RegistryGet(commands, ToUpperCase(LastRegistered[1].name)) = LastRegistered
              /\ RegistryGet(commands, ToLowerCase(LastRegistered[1].name)) = LastRegistered

\* C9 amended: after a sequence of register calls, get(n) is the most
\* recently registered command whose lower-cased name equals lower(n); after
\* register(cmd named N), get(N) and get(lower(N)) are cmd, and get(upper(N))
\* is cmd when lower(upper(N)) = lower(N), as for every ASCII name; a
\* duplicate register replaces the earlier entry.
C9_GetReturnsLatestByLowerCase ==
    OnlyRegisters =>
        /\ \A n \in RegistryNames :
              RegistryGet(commands, n) = Latest(regLog, n, SameLowerCase)
        /\ LastRegistered # None =>
              LET N == LastRegistered[1].name
              IN  /\ RegistryGet(commands, N) = LastRegistered
                  /\ RegistryGet(commands, ToLowerCase(N)) = LastRegistered
                  /\ ToLowerCase(ToUpperCase(N)) = ToLowerCase(N) =>
                        RegistryGet(commands, ToUpperCase(N)) = LastRegistered

\* Two commands were registered under names that differ in case only, and
\* get returns the second under the upper-case and the lower-case name.
C9_Witness ==
    /\ OnlyRegisters
    /\ Len(regLog) >= 2
    /\ LET first == regLog[Len(regLog) - 1]
           last == regLog[Len(regLog)]
       IN  /\ first.name = sEcho /\ last.name = sUpperEcho
           /\ first.command # last.command
           /\ RegistryGet(commands, sEcho) = last.command
           /\ RegistryGet(commands, ToUpperCase(sEcho)) = last.command

\* C10: unregister(n) removes exactly the entry whose key is lower(n) and
\* completes also when there is none; afterwards get(n) is null and
\* exists(n) is false and every other entry is unchanged; and in every
\* registry state exists(m) is true iff get(m) is non-null.
C10_UnregisterRemovesExactlyOne ==
    /\ \A i \in 1..Len(regLog) :
          regLog[i].op = "unregister" =>
              LET before == regLog[i].before
                  after == After(i)
                  n == regLog[i].name
              IN  /\ RegistryGet(after, n) = None
                  /\ ~RegistryExists(after, n)
                  /\ DOMAIN after = DOMAIN before \ {ToLowerCase(n)}
                  /\ \A k \in DOMAIN after : after[k] = before[k]
    /\ \A m \in RegistryNames :
          RegistryExists(commands, m) <=> (RegistryGet(commands, m) # None)

\* One unregister found no entry and left the registry as it was; another
\* removed the entry of a name given in another case and left a second
\* entry in place.
C10_Witness ==
    /\ \E i \in 1..Len(regLog) :
          /\ regLog[i].op = "unregister"
          /\ ToLowerCase(regLog[i].name) \notin DOMAIN regLog[i].before
          /\ After(i) = regLog[i].before
    /\ \E i \in 1..Len(regLog) :
          /\ regLog[i].op = "unregister"
          /\ regLog[i].name # ToLowerCase(regLog[i].name)
          /\ ToLowerCase(regLog[i].name) \in DOMAIN regLog[i].before
          /\ After(i) # EmptyRegistry

(***************************************************************************)
(* The parser's specification: one run of parseArguments over a token      *)
(* list, one iteration of its loop at a time.                              *)
(***************************************************************************)
MaxParse == 3

sAdd == <<"a", "d", "d">>
sFive == <<"5">>
sThree == <<"3">>
sDashJ == <<"-", "j">>
sDashJV == <<"-", "j", "v">>
sLongVerbose == <<"-", "-">> \o sVerbose
sLongOutput == <<"-", "-">> \o sOutput
sLongK == <<"-", "-", "k">>
sLongKEmpty == <<"-", "-", "k", "=">>
sLongKAB == <<"-", "-", "k", "=", "a", "=", "b">>
sLongJX == <<"-", "-", "j", "=", "x">>

ParserTokens ==
    {sAdd, sFive, sDashJ, sDashJV, sDashV, sLongVerbose, sLongOutput, sFormatJson,
     sLongK, sLongKEmpty, sLongKAB, sLongJX}

\* ['add', '--verbose', '-j', '5', '3']
ExampleTokens == <<sAdd, sLongVerbose, sDashJ, sFive, sThree>>

ParserTokenLists == SeqsUpTo(ParserTokens, MaxParse) \cup {ExampleTokens}

InitParser ==
    /\ retry = NoRetry
    /\ shell = NoShell
    /\ commands = EmptyRegistry
    /\ regLog = <<>>
    /\ now = 0
    /\ call = IdleCall
    /\ \E tokens \in ParserTokenLists : parser = [NoParse EXCEPT !.tokens = tokens]
    /\ container = NewContainer
    /\ emitter = NewEmitter
    /\ plugins = NewPluginManager
    /\ agent = NoAgent

\* One iteration of the loop: args[i] is parsed into the context.
ParseStep ==
    /\ ~parser.returned
    /\ parser.i < Len(parser.tokens)
    /\ parser' = [parser EXCEPT !.i = @ + 1,
                                !.ctx = ParseToken(@, parser.tokens[parser.i + 1])]
    /\ UNCHANGED <<commands, regLog, now, call, container, emitter, plugins, agent, retry, shell>>

\* The loop is over and the context is returned.
ParseReturn ==
    /\ ~parser.returned
    /\ parser.i = Len(parser.tokens)
    /\ parser' = [parser EXCEPT !.returned = TRUE]
    /\ UNCHANGED <<commands, regLog, now, call, container, emitter, plugins, agent, retry, shell>>

NextParser == ParseStep \/ ParseReturn

SpecParser == InitParser /\ [][NextParser]_vars

\* The token the last iteration parsed.
LastToken == parser.tokens[parser.i]

IsLongOption(tok) == StartsWith(tok, <<"-", "-">>)
IsShortCluster(tok) == StartsWith(tok, <<"-">>) /\ ~IsLongOption(tok)

\* The part of s before its first sep (all of s when it has none), and the
\* part after it.
RECURSIVE BeforeFirst(_, _)
BeforeFirst(s, sep) ==
    IF s = <<>> \/ Head(s) = sep THEN <<>> ELSE <<Head(s)>> \o BeforeFirst(Tail(s), sep)

AfterFirst(s, sep) == Substring(s, Len(BeforeFirst(s, sep)) + 1)

Contains(s, c) == \E i \in 1..Len(s) : s[i] = c

ReservedKeys == {sOutput, sFormat, sVerbose}

\* C18 as stated: a long option --k=v is stored with the whole substring
\* after the first '=' as its value (--k=a=b gives 'a=b'), --k= with the
\* empty string, and --k without '=' with the boolean true.
C18_AsStated ==
    (parser.i > 0 /\ IsLongOption(LastToken)
        /\ BeforeFirst(Substring(LastToken, 2), "=") \notin ReservedKeys) =>
        LET body == Substring(LastToken, 2)
            key == BeforeFirst(body, "=")
        IN  /\ key \in DOMAIN parser.ctx.options
            /\ parser.ctx.options[key] =
                  IF Contains(body, "=") THEN OptStr(AfterFirst(body, "=")) ELSE OptTrue

\* C19: parseArguments never stores the long-option keys output, format
\* and verbose in options; every character of a short-flag cluster is
\* stored in options as true when the cluster is parsed, j setting the json
\* output format and v the verbosity as well; the tokens that do not start
\* with '-' are the arguments, in their order; a list of such tokens only
\* leaves options empty, the format text and verbose false; and
\* ['add', '--verbose', '-j', '5', '3'] gives arguments ['add', '5', '3'],
\* verbose = true, outputFormat = 'json' and options = {j: true}.
C19_ReservedKeysAndFlags ==
    /\ \A key \in ReservedKeys : key \notin DOMAIN parser.ctx.options
    /\ parser.ctx.arguments = Positionals(SubSeq(parser.tokens, 1, parser.i))
    /\ (parser.i > 0 /\ IsShortCluster(LastToken)) =>
          \A n \in 2..Len(LastToken) :
              /\ <<LastToken[n]>> \in DOMAIN parser.ctx.options
              /\ parser.ctx.options[<<LastToken[n]>>] = OptTrue
              /\ LastToken[n] = "j" => parser.ctx.outputFormat = "json"
              /\ LastToken[n] = "v" => parser.ctx.verbose
    /\ parser.returned =>
          /\ parser.ctx = ParseArguments(parser.tokens)
          /\ Positionals(parser.tokens) = parser.tokens =>
                parser.ctx = [EmptyContext EXCEPT !.arguments = parser.tokens]
          /\ parser.tokens = ExampleTokens =>
                parser.ctx = [arguments |-> <<sAdd, sFive, sThree>>,
                              options |-> SetOption(<<>>, <<"j">>, OptTrue),
                              outputFormat |-> "json", verbose |-> TRUE]

\* The example list was parsed to its end, with j stored in options.
C19_Witness ==
    /\ parser.returned
    /\ parser.tokens = ExampleTokens
    /\ DOMAIN parser.ctx.options = {<<"j">>}
    /\ parser.ctx.outputFormat = "json"

(***************************************************************************)
(* The service container: DIContainer.  A service is a function (a         *)
(* factory) or an object; every object created has a new identity.         *)
(* container.factories is the set of keys whose entry in services was      *)
(* made by registerFactory; container.log is the calls made, in order.     *)
(***************************************************************************)
MaxContainerOps == 4

ContainerKeys == {"logger", "command"}

\* The factory function registered for a key, and the n-th object created.
FactoryFunction(key) == [type |-> "function", key |-> key, id |-> 0]
ObjectInstance(key, n) == [type |-> "object", key |-> key, id |-> n]

\* Map.prototype.set
MapSet(map, key, value) ==
    [k \in DOMAIN map \cup {key} |-> IF k = key THEN value ELSE map[k]]

\* registerFactory(key, factory)
ContainerRegisterFactory(c, key) ==
    [c EXCEPT !.services = MapSet(@, key, FactoryFunction(key)),
              !.factories = @ \cup {key}]

\* registerSingleton(key, instance) with a newly created instance.
ContainerRegisterSingleton(c, key) ==
    LET instance == ObjectInstance(key, c.made + 1)
    IN  [c EXCEPT !.services = MapSet(@, key, instance),
                  !.singletons = MapSet(@, key, instance),
                  !.factories = @ \ {key},
                  !.made = @ + 1]

\* register(key, service) with a newly created object as service.
ContainerRegister(c, key) ==
    [c EXCEPT !.services = MapSet(@, key, ObjectInstance(key, c.made + 1)),
              !.factories = @ \ {key},
              !.made = @ + 1]

\* clear()
ContainerClear(c) ==
    [c EXCEPT !.services = <<>>, !.singletons = <<>>, !.factories = {}]

\* get(key): the container it leaves, the value it returns or the error it
\* throws, and whether it called the factory.
ContainerGet(c, key) ==
    IF key \in DOMAIN c.services
    THEN LET service == c.services[key]
         IN  IF service.type = "function" /\ key \notin DOMAIN c.singletons
             THEN LET instance == ObjectInstance(key, c.made + 1)
                  IN  [container |-> [c EXCEPT !.singletons = MapSet(@, key, instance),
                                               !.made = @ + 1],
                       threw |-> FALSE, value |-> Some(instance), invoked |-> TRUE]
             ELSE [container |-> c, threw |-> FALSE, value |-> Some(service),
                   invoked |-> FALSE]
    ELSE [container |-> c, threw |-> TRUE, value |-> None, invoked |-> FALSE]

InitContainer ==
    /\ retry = NoRetry
    /\ shell = NoShell
    /\ commands = EmptyRegistry
    /\ regLog = <<>>
    /\ now = 0
    /\ call = IdleCall
    /\ parser = NoParse
    /\ container = NewContainer
    /\ emitter = NewEmitter
    /\ plugins = NewPluginManager
    /\ agent = NoAgent

\* One call on the container, logged with what it returned.
ContainerCall(c, op, key, got) ==
    [c EXCEPT !.log = Append(container.log,
                             [op |-> op, key |-> key, factory |-> key \in container.factories,
                              threw |-> got.threw, value |-> got.value,
                              invoked |-> got.invoked])]

NoValue == [threw |-> FALSE, value |-> None, invoked |-> FALSE]

\* container.registerFactory(key, () => new ...)
RegisterFactory(key) ==
    /\ Len(container.log) < MaxContainerOps
    /\ container' = ContainerCall(ContainerRegisterFactory(container, key),
                                  "registerFactory", key, NoValue)
    /\ UNCHANGED <<commands, regLog, now, call, parser, emitter, plugins, agent, retry, shell>>

\* container.registerSingleton(key, new ...)
RegisterSingleton(key) ==
    /\ Len(container.log) < MaxContainerOps
    /\ container' = ContainerCall(ContainerRegisterSingleton(container, key),
                                  "registerSingleton", key, NoValue)
    /\ UNCHANGED <<commands, regLog, now, call, parser, emitter, plugins, agent, retry, shell>>

\* container.register(key, new ...)
RegisterService(key) ==
    /\ Len(container.log) < MaxContainerOps
    /\ container' = ContainerCall(ContainerRegister(container, key), "register", key, NoValue)
    /\ UNCHANGED <<commands, regLog, now, call, parser, emitter, plugins, agent, retry, shell>>

\* container.clear()
Clear ==
    /\ Len(container.log) < MaxContainerOps
    /\ container' = ContainerCall(ContainerClear(container), "clear", "", NoValue)
    /\ UNCHANGED <<commands, regLog, now, call, parser, emitter, plugins, agent, retry, shell>>

\* container.get(key)
Get(key) ==
    /\ Len(container.log) < MaxContainerOps
    /\ LET got == ContainerGet(container, key)
       IN  container' = ContainerCall(got.container, "get", key, got)
    /\ UNCHANGED <<commands, regLog, now, call, parser, emitter, plugins, agent, retry, shell>>

NextContainer ==
    \/ \E key \in ContainerKeys : RegisterFactory(key)
    \/ \E key \in ContainerKeys : RegisterSingleton(key)
    \/ \E key \in ContainerKeys : RegisterService(key)
    \/ \E key \in ContainerKeys : Get(key)
    \/ Clear

SpecContainer == InitContainer /\ [][NextContainer]_vars

\* C20 as stated: every get of a key registered with registerFactory calls
\* the factory and returns an instance that no earlier get returned, and
\* never the factory function itself.
C20_AsStated ==
    \A i \in 1..Len(container.log) :
        LET e == container.log[i]
        IN  (e.op = "get" /\ e.factory) =>
                /\ ~e.threw
                /\ e.invoked
                /\ e.value[1].type = "object"
                /\ \A j \in 1..(i - 1) :
                      container.log[j].op = "get" => container.log[j].value # e.value

(***************************************************************************)
(* The event emitter: CLIEventEmitter.  listeners maps an event to its Set *)
(* of callbacks, a Set being the sequence of its members in the order of   *)
(* their insertion.  A callback is an identity and what it does when it is *)
(* called: return or throw.  Callbacks that call on or off themselves      *)
(* come further down.  emitter.stamps records, for every callback that is  *)
(* registered for an event, the number of the on call that registered it.  *)
(***************************************************************************)
MaxEmitterOps == 5

EmitterEvents == {"command:executed", "command:failed"}

Callbacks ==
    {[id |-> "a", throws |-> FALSE], [id |-> "b", throws |-> TRUE],
     [id |-> "c", throws |-> FALSE]}

\* Set.prototype.add and Set.prototype.delete.
SetAdd(set, x) ==
    IF \E i \in 1..Len(set) : set[i] = x THEN set ELSE Append(set, x)

SetDelete(set, x) == SelectSeq(set, LAMBDA y : y # x)

\* A mutant of EmitterOn: the callback is put before the others.
EmitterOnFront(listeners, event, callback) ==
    LET set == IF event \in DOMAIN listeners THEN listeners[event] ELSE <<>>
    IN  MapSet(listeners, event,
               IF \E i \in 1..Len(set) : set[i] = callback THEN set ELSE <<callback>> \o set)

\* on(event, callback)
EmitterOn(listeners, event, callback) ==
    LET set == IF event \in DOMAIN listeners THEN listeners[event] ELSE <<>>
    IN  MapSet(listeners, event, SetAdd(set, callback))

\* off(event, callback)
EmitterOff(listeners, event, callback) ==
    IF event \notin DOMAIN listeners THEN listeners
    ELSE MapSet(listeners, event, SetDelete(listeners[event], callback))

\* callbacks.forEach with the try/catch around each call: the calls made.
RECURSIVE ForEachCaught(_, _)
ForEachCaught(callbacks, data) ==
    IF callbacks = <<>> THEN <<>>
    ELSE <<[callback |-> Head(callbacks), data |-> data, threw |-> Head(callbacks).throws]>>
         \o ForEachCaught(Tail(callbacks), data)

\* callbacks.forEach without a try/catch: it ends at the first throw.
RECURSIVE ForEachUncaught(_, _)
ForEachUncaught(callbacks, data) ==
    IF callbacks = <<>> THEN <<>>
    ELSE <<[callback |-> Head(callbacks), data |-> data, threw |-> Head(callbacks).throws]>>
         \o (IF Head(callbacks).throws THEN <<>> ELSE ForEachUncaught(Tail(callbacks), data))

\* A mutant of EmitterEmit: a listener's exception is not caught.
EmitterEmitUncaught(listeners, event, data) ==
    IF event \notin DOMAIN listeners THEN [deliveries |-> <<>>, threw |-> FALSE]
    ELSE LET made == ForEachUncaught(listeners[event], data)
         IN  [deliveries |-> made, threw |-> \E i \in 1..Len(made) : made[i].threw]

\* emit(event, data): the calls it makes and whether it throws.
EmitterEmit(listeners, event, data) ==
    IF event \notin DOMAIN listeners THEN [deliveries |-> <<>>, threw |-> FALSE]
    ELSE [deliveries |-> ForEachCaught(listeners[event], data), threw |-> FALSE]

InitEmitter ==
    /\ retry = NoRetry
    /\ shell = NoShell
    /\ commands = EmptyRegistry
    /\ regLog = <<>>
    /\ now = 0
    /\ call = IdleCall
    /\ parser = NoParse
    /\ container = NewContainer
    /\ emitter = NewEmitter
    /\ plugins = NewPluginManager
    /\ agent = NoAgent

Registered(listeners, event, callback) ==
    /\ event \in DOMAIN listeners
    /\ \E i \in 1..Len(listeners[event]) : listeners[event][i] = callback

\* eventEmitter.on(event, callback)
On(event, callback) ==
    /\ emitter.ops < MaxEmitterOps
    /\ emitter' =
          [listeners |-> EmitterOn(emitter.listeners, event, callback),
           stamps |-> IF Registered(emitter.listeners, event, callback) THEN emitter.stamps
                      ELSE MapSet(emitter.stamps, <<event, callback>>, emitter.ops + 1),
           ops |-> emitter.ops + 1,
           last |-> [NoEmitterCall EXCEPT !.op = "on", !.event = event,
                                          !.callback = Some(callback),
                                          !.before = emitter.listeners],
           emitting |-> emitter.emitting]
    /\ UNCHANGED <<commands, regLog, now, call, parser, container, plugins, agent, retry, shell>>

\* eventEmitter.off(event, callback)
Off(event, callback) ==
    /\ emitter.ops < MaxEmitterOps
    /\ emitter' =
          [listeners |-> EmitterOff(emitter.listeners, event, callback),
           stamps |-> [k \in DOMAIN emitter.stamps \ {<<event, callback>>} |-> emitter.stamps[k]],
           ops |-> emitter.ops + 1,
           last |-> [NoEmitterCall EXCEPT !.op = "off", !.event = event,
                                          !.callback = Some(callback),
                                          !.before = emitter.listeners],
           emitting |-> emitter.emitting]
    /\ UNCHANGED <<commands, regLog, now, call, parser, container, plugins, agent, retry, shell>>

\* eventEmitter.emit(event, data)
Emit(event) ==
    /\ emitter.ops < MaxEmitterOps
    /\ LET done == EmitterEmit(emitter.listeners, event, "data")
       IN  emitter' =
              [emitter EXCEPT !.ops = @ + 1,
                              !.last = [NoEmitterCall EXCEPT !.op = "emit", !.event = event,
                                                             !.before = emitter.listeners,
                                                             !.deliveries = done.deliveries,
                                                             !.threw = done.threw]]
    /\ UNCHANGED <<commands, regLog, now, call, parser, container, plugins, agent, retry, shell>>

NextEmitter ==
    \/ \E event \in EmitterEvents, callback \in Callbacks : On(event, callback)
    \/ \E event \in EmitterEvents, callback \in Callbacks : Off(event, callback)
    \/ \E event \in EmitterEvents : Emit(event)

SpecEmitter == InitEmitter /\ [][NextEmitter]_vars

\* The number of calls an emit made to a callback.
TimesCalled(deliveries, callback) ==
    Cardinality({i \in 1..Len(deliveries) : deliveries[i].callback = callback})

\* The callbacks registered for the event of the last call, as a sequence.
RegisteredBefore ==
    IF emitter.last.event \in DOMAIN emitter.last.before
    THEN emitter.last.before[emitter.last.event]
    ELSE <<>>

\* C13: when a listener registered before another one on the same event
\* throws, emit still calls the other one exactly once, and emit returns
\* normally: no exception of a listener leaves emit.
C13_ListenerIsolation ==
    emitter.last.op = "emit" =>
        /\ ~emitter.last.threw
        /\ \A i, j \in 1..Len(RegisteredBefore) :
              (i < j /\ RegisteredBefore[i].throws) =>
                  TimesCalled(emitter.last.deliveries, RegisteredBefore[j]) = 1

\* An emit called a listener that threw and then a second listener.
C13_Witness ==
    /\ emitter.last.op = "emit"
    /\ Len(emitter.last.deliveries) = 2
    /\ emitter.last.deliveries[1].threw
    /\ ~emitter.last.deliveries[2].threw
    /\ ~emitter.last.threw

\* C14: after any on and off calls, emit(e, data) calls every callback
\* registered for e exactly once with data, in the order of their
\* registration, and no other callback, all before it returns; and off with
\* a callback that is not registered changes nothing.
C14_DeliveryInRegistrationOrder ==
    /\ \A event \in EmitterEvents, callback \in Callbacks :
          Registered(emitter.listeners, event, callback)
              <=> <<event, callback>> \in DOMAIN emitter.stamps
    /\ emitter.last.op = "emit" =>
          LET made == emitter.last.deliveries
              e == emitter.last.event
          IN  /\ emitter.listeners = emitter.last.before
              /\ \A callback \in Callbacks :
                    TimesCalled(made, callback) =
                        IF <<e, callback>> \in DOMAIN emitter.stamps THEN 1 ELSE 0
              /\ \A i \in 1..Len(made) : made[i].data = "data"
              /\ \A i, j \in 1..Len(made) :
                    i < j => emitter.stamps[<<e, made[i].callback>>]
                                < emitter.stamps[<<e, made[j].callback>>]
    /\ (emitter.last.op = "off"
          /\ ~Registered(emitter.last.before, emitter.last.event, emitter.last.callback[1])) =>
              /\ emitter.listeners = emitter.last.before
              /\ \A event \in EmitterEvents, callback \in Callbacks :
                    Registered(emitter.listeners, event, callback)
                        <=> Registered(emitter.last.before, event, callback)

\* A callback was registered, removed and registered again after another
\* one, and emit called the two in the order of their current registrations.
C14_Witness ==
    /\ emitter.last.op = "emit"
    /\ Len(emitter.last.deliveries) = 2
    /\ LET e == emitter.last.event
           first == emitter.last.deliveries[1].callback
           second == emitter.last.deliveries[2].callback
       IN  /\ emitter.stamps[<<e, first>>] = 2
           /\ emitter.stamps[<<e, second>>] = 4

(***************************************************************************)
(* The event emitter with listeners that call on and off while an emit     *)
(* delivers to them.  callbacks.forEach walks the Set itself: the list of   *)
(* its entries in the order of insertion, where delete empties the entry   *)
(* of a member and add appends an entry, and forEach goes on until it has  *)
(* passed the last entry of the list as it then is.  emitter.emitting is   *)
(* the emit that is running: the entries, the number of entries passed,    *)
(* the callbacks registered when emit was called and the callbacks called. *)
(***************************************************************************)
MaxDeliveries == 4

ReentrantEvent == "command:executed"

\* Listeners: p returns; q calls on(event, p); r calls off(event, p); s
\* calls off(event, s) and on(event, s).  None of them throws or calls emit.
Listeners ==
    {[id |-> "p", throws |-> FALSE, does |-> "returns", target |-> ""],
     [id |-> "q", throws |-> FALSE, does |-> "on", target |-> "p"],
     [id |-> "r", throws |-> FALSE, does |-> "off", target |-> "p"],
     [id |-> "s", throws |-> FALSE, does |-> "again", target |-> "s"]}

ListenerById(id) == CHOOSE l \in Listeners : l.id = id

\* The entries of a Set: <<member>>, or <<>> for an entry that was deleted.
SetData(set) == [i \in 1..Len(set) |-> <<set[i]>>]

\* Set.prototype.add and Set.prototype.delete on the entries.
SetDataAdd(entries, x) ==
    IF \E i \in 1..Len(entries) : entries[i] = <<x>> THEN entries
    ELSE Append(entries, <<x>>)

SetDataDelete(entries, x) ==
    [i \in 1..Len(entries) |-> IF entries[i] = <<x>> THEN <<>> ELSE entries[i]]

\* The members of a Set, from its entries.
RECURSIVE SetMembers(_)
SetMembers(entries) ==
    IF entries = <<>> THEN <<>>
    ELSE Head(entries) \o SetMembers(Tail(entries))

\* callback(data): the entries of the Set when the listener returns.
ListenerCall(entries, callback) ==
    CASE callback.does = "on" -> SetDataAdd(entries, ListenerById(callback.target))
      [] callback.does = "off" -> SetDataDelete(entries, ListenerById(callback.target))
      [] callback.does = "again" -> SetDataAdd(SetDataDelete(entries, callback), callback)
      [] OTHER -> entries

\* One step of callbacks.forEach: the next entry is passed and, unless it
\* is empty, its callback is called.
ForEachStep(e) ==
    LET d == e.emitting
        entry == d.entries[d.i + 1]
    IN  IF entry = <<>>
        THEN [e EXCEPT !.emitting = [d EXCEPT !.i = @ + 1]]
        ELSE LET after == ListenerCall(d.entries, entry[1])
             IN  [e EXCEPT !.listeners = MapSet(@, d.event, SetMembers(after)),
                           !.emitting = [d EXCEPT !.i = @ + 1,
                                                  !.entries = after,
                                                  !.delivered = Append(@, entry[1])]]

\* eventEmitter.on(event, callback) while no emit is running.
ListenerOn(callback) ==
    /\ emitter.emitting.pc # "running"
    /\ On(ReentrantEvent, callback)

\* eventEmitter.emit(event, data), to the start of callbacks.forEach.
BeginEmit ==
    /\ emitter.ops < MaxEmitterOps
    /\ emitter.emitting.pc # "running"
    /\ LET set == IF ReentrantEvent \in DOMAIN emitter.listeners
                  THEN emitter.listeners[ReentrantEvent] ELSE <<>>
       IN  emitter' = [emitter EXCEPT
                          !.ops = @ + 1,
                          !.emitting = [pc |-> "running", event |-> ReentrantEvent,
                                        entries |-> SetData(set), i |-> 0,
                                        atStart |-> set, delivered |-> <<>>]]
    /\ UNCHANGED <<commands, regLog, now, call, parser, container, plugins, agent, retry, shell>>

\* The emit that is running goes one step on.
Deliver ==
    /\ emitter.emitting.pc = "running"
    /\ emitter.emitting.i < Len(emitter.emitting.entries)
    /\ Len(emitter.emitting.delivered) < MaxDeliveries
    /\ emitter' = ForEachStep(emitter)
    /\ UNCHANGED <<commands, regLog, now, call, parser, container, plugins, agent, retry, shell>>

\* forEach has passed the last entry and emit returns.
EndEmit ==
    /\ emitter.emitting.pc = "running"
    /\ emitter.emitting.i = Len(emitter.emitting.entries)
    /\ emitter' = [emitter EXCEPT !.emitting.pc = "ended"]
    /\ UNCHANGED <<commands, regLog, now, call, parser, container, plugins, agent, retry, shell>>

NextReentrant ==
    \/ \E callback \in Listeners : ListenerOn(callback)
    \/ BeginEmit
    \/ Deliver
    \/ EndEmit

SpecReentrant == InitEmitter /\ [][NextReentrant]_vars

\* The callbacks of a sequence, as a set.
Members(seq) == {seq[i] : i \in 1..Len(seq)}

\* C30 as stated: the callbacks one emit calls are exactly those registered
\* when emit was called, each once, whatever on and off calls the listeners
\* make meanwhile: a callback added during the delivery is not called by
\* that emit, and the emit ends after as many calls as there were callbacks.
C30_AsStated ==
    /\ emitter.emitting.pc # "none" =>
          /\ Members(emitter.emitting.delivered) \subseteq Members(emitter.emitting.atStart)
          /\ Len(emitter.emitting.delivered) <= Len(emitter.emitting.atStart)
    /\ emitter.emitting.pc = "ended" =>
          Members(emitter.emitting.delivered) = Members(emitter.emitting.atStart)

(***************************************************************************)
(* The plugin manager: PluginManager.  loadPlugin and unloadPlugin are     *)
(* async: each runs to its await of the plugin's promise and is resumed    *)
(* when the promise settles, other calls running in between.  The          *)
(* container holds the logger that CLIBootstrap.create registered, and the *)
(* logger does not throw.  plugins.calls is the calls that are awaiting,   *)
(* plugins.log the calls that are over, in the order they ended, each with *)
(* loadedPlugins as its last step found and left it, and plugins.events    *)
(* the emits of the manager, each with loadedPlugins at the emit.  A call   *)
(* keeps the registry as it found it (registryBefore) and as the           *)
(* synchronous part of the plugin's method left it (registryAfter).        *)
(***************************************************************************)
MaxPluginCalls == 3

PluginNames == {"calculator", "analyzer"}

sSubtract == <<"s", "u", "b", "t", "r", "a", "c", "t">>
sMultiply == <<"m", "u", "l", "t", "i", "p", "l", "y">>

AddCommand == [name |-> sAdd, kind |-> "add"]
SubtractCommand == [name |-> sSubtract, kind |-> "subtract"]
MultiplyCommand == [name |-> sMultiply, kind |-> "multiply"]

\* The plugins: the calculator, whose initialize registers its commands;
\* the screenshot analyzer, whose initialize throws when the configuration
\* has no GEMINI_API_KEY; a plugin whose shutdown throws; and a plugin whose
\* initialize registers a command and then throws.
CalculatorPlugin == [id |-> "CalculatorPlugin", shutdown |-> "resolves"]
ScreenshotAnalyzerPlugin == [id |-> "ScreenshotAnalyzerPlugin", shutdown |-> "resolves"]
BusyPlugin == [id |-> "BusyPlugin", shutdown |-> "rejects"]
PartialPlugin == [id |-> "PartialPlugin", shutdown |-> "resolves"]

Plugins == {CalculatorPlugin, ScreenshotAnalyzerPlugin, BusyPlugin, PartialPlugin}

Settled(threw, error) == [threw |-> threw, error |-> error]

\* plugin.initialize(container): the registry it leaves and how its
\* promise settles.
PluginInitialize(plugin, cmds) ==
    CASE plugin = CalculatorPlugin ->
            [commands |-> RegistryRegister(RegistryRegister(RegistryRegister(
                              cmds, AddCommand), SubtractCommand), MultiplyCommand),
             settled |-> Settled(FALSE, None)]
      [] plugin = ScreenshotAnalyzerPlugin ->
            [commands |-> cmds,
             settled |-> Settled(TRUE, Some(ErrorValue("Error",
                             "GEMINI_API_KEY not found in configuration")))]
      [] plugin = PartialPlugin ->
            [commands |-> RegistryRegister(cmds, AddCommand),
             settled |-> Settled(TRUE, Some(ErrorValue("Error", "setup failed")))]
      [] OTHER -> [commands |-> cmds, settled |-> Settled(FALSE, None)]

\* plugin.shutdown(): how its promise settles; BasePlugin's does nothing.
PluginShutdown(plugin) ==
    IF plugin.shutdown = "rejects"
    THEN Settled(TRUE, Some(ErrorValue("Error", "plugin is busy")))
    ELSE Settled(FALSE, None)

MapDelete(map, key) == [k \in DOMAIN map \ {key} |-> map[k]]

\* isPluginLoaded(name) and getLoadedPlugins() as a set.
IsPluginLoaded(loaded, name) == name \in DOMAIN loaded
GetLoadedPlugins(loaded) == DOMAIN loaded

PluginEvent(event, name, n, loaded) ==
    [event |-> event, pluginName |-> name, call |-> n, loaded |-> loaded]

\* A call that is over.
PluginCallOver(c, found, outcome, error, before, after) ==
    [n |-> c.n, op |-> c.op, name |-> c.name, plugin |-> c.plugin, found |-> found,
     shutdownCalled |-> c.shutdownCalled, settled |-> c.settled,
     registryBefore |-> c.registryBefore, registryAfter |-> c.registryAfter,
     outcome |-> outcome, error |-> error, before |-> before, after |-> after]

\* A mutant of LoadPluginResume: the plugin is recorded before the outcome
\* of initialize is looked at.
LoadPluginResumeRecordsFirst(pm, c) ==
    LET loaded == MapSet(pm.loadedPlugins, c.name, c.plugin)
    IN  IF c.settled.threw
        THEN [pm EXCEPT !.loadedPlugins = loaded,
                        !.calls = MapDelete(@, c.n),
                        !.log = Append(@, PluginCallOver(c, FALSE, "threw", c.settled.error,
                                                         pm.loadedPlugins, loaded))]
        ELSE [pm EXCEPT !.loadedPlugins = loaded,
                        !.calls = MapDelete(@, c.n),
                        !.events = Append(@, PluginEvent("plugin:loaded", c.name, c.n, loaded)),
                        !.log = Append(@, PluginCallOver(c, FALSE, "returned", None,
                                                         pm.loadedPlugins, loaded))]

\* loadPlugin from the settling of plugin.initialize to its end.
LoadPluginResume(pm, c) ==
    IF c.settled.threw
    THEN [pm EXCEPT !.calls = MapDelete(@, c.n),
                    !.log = Append(@, PluginCallOver(c, FALSE, "threw", c.settled.error,
                                                     pm.loadedPlugins, pm.loadedPlugins))]
    ELSE LET loaded == MapSet(pm.loadedPlugins, c.name, c.plugin)
         IN  [pm EXCEPT !.loadedPlugins = loaded,
                        !.calls = MapDelete(@, c.n),
                        !.events = Append(@, PluginEvent("plugin:loaded", c.name, c.n, loaded)),
                        !.log = Append(@, PluginCallOver(c, FALSE, "returned", None,
                                                         pm.loadedPlugins, loaded))]

\* A mutant of UnloadPluginResume: the record is removed before the outcome
\* of shutdown is looked at.
UnloadPluginResumeRemovesFirst(pm, c) ==
    LET loaded == MapDelete(pm.loadedPlugins, c.name)
    IN  IF c.settled.threw
        THEN [pm EXCEPT !.loadedPlugins = loaded,
                        !.calls = MapDelete(@, c.n),
                        !.log = Append(@, PluginCallOver(c, TRUE, "threw", c.settled.error,
                                                         pm.loadedPlugins, loaded))]
        ELSE [pm EXCEPT !.loadedPlugins = loaded,
                        !.calls = MapDelete(@, c.n),
                        !.events = Append(@, PluginEvent("plugin:unloaded", c.name, c.n, loaded)),
                        !.log = Append(@, PluginCallOver(c, TRUE, "returned", None,
                                                         pm.loadedPlugins, loaded))]

\* unloadPlugin from the settling of plugin.shutdown to its end.
UnloadPluginResume(pm, c) ==
    IF c.settled.threw
    THEN [pm EXCEPT !.calls = MapDelete(@, c.n),
                    !.log = Append(@, PluginCallOver(c, TRUE, "threw", c.settled.error,
                                                     pm.loadedPlugins, pm.loadedPlugins))]
    ELSE LET loaded == MapDelete(pm.loadedPlugins, c.name)
         IN  [pm EXCEPT !.loadedPlugins = loaded,
                        !.calls = MapDelete(@, c.n),
                        !.events = Append(@, PluginEvent("plugin:unloaded", c.name, c.n, loaded)),
                        !.log = Append(@, PluginCallOver(c, TRUE, "returned", None,
                                                         pm.loadedPlugins, loaded))]

\* The number of the next call: the calls begun so far, plus one.
NextPluginCall(pm) == Cardinality(DOMAIN pm.calls) + Len(pm.log) + 1

\* The manager as CLIBootstrap.create returns it, or as the application's
\* setup leaves it, with the calculator plugin loaded.
InitPlugins ==
    /\ retry = NoRetry
    /\ shell = NoShell
    /\ regLog = <<>>
    /\ now = 0
    /\ call = IdleCall
    /\ parser = NoParse
    /\ container = NewContainer
    /\ emitter = NewEmitter
    /\ agent = NoAgent
    /\ \/ /\ commands = BootstrapRegistry
          /\ plugins = NewPluginManager
       \/ /\ commands = PluginInitialize(CalculatorPlugin, BootstrapRegistry).commands
          /\ plugins = [NewPluginManager EXCEPT
                            !.loadedPlugins = MapSet(<<>>, "calculator", CalculatorPlugin)]

\* pluginManager.loadPlugin(name, plugin), to the await of initialize.
LoadPlugin(name, plugin) ==
    /\ NextPluginCall(plugins) <= MaxPluginCalls
    /\ LET started == PluginInitialize(plugin, commands)
           n == NextPluginCall(plugins)
       IN  /\ commands' = started.commands
           /\ plugins' = [plugins EXCEPT !.calls = MapSet(@, n,
                              [n |-> n, op |-> "load", name |-> name, plugin |-> plugin,
                               shutdownCalled |-> FALSE, settled |-> started.settled,
                               registryBefore |-> commands,
                               registryAfter |-> started.commands])]
    /\ UNCHANGED <<regLog, now, call, parser, container, emitter, agent, retry, shell>>

\* pluginManager.unloadPlugin(name), to its return when no plugin is
\* recorded under name, and to the await of shutdown otherwise.
UnloadPlugin(name) ==
    /\ NextPluginCall(plugins) <= MaxPluginCalls
    /\ LET n == NextPluginCall(plugins)
           c == [n |-> n, op |-> "unload", name |-> name, plugin |-> None,
                 shutdownCalled |-> FALSE, settled |-> Settled(FALSE, None),
                 registryBefore |-> commands, registryAfter |-> commands]
       IN  IF name \notin DOMAIN plugins.loadedPlugins
           THEN plugins' = [plugins EXCEPT !.log = Append(@,
                               PluginCallOver(c, FALSE, "returned", None,
                                              plugins.loadedPlugins, plugins.loadedPlugins))]
           ELSE plugins' = [plugins EXCEPT !.calls = MapSet(@, n,
                               [c EXCEPT !.plugin = Some(plugins.loadedPlugins[name]),
                                         !.shutdownCalled = TRUE,
                                         !.settled = PluginShutdown(plugins.loadedPlugins[name])])]
    /\ UNCHANGED <<commands, regLog, now, call, parser, container, emitter, agent, retry, shell>>

\* The promise a call awaits settles and the call runs to its end.
PluginCallSettles(n) ==
    /\ n \in DOMAIN plugins.calls
    /\ plugins' = IF plugins.calls[n].op = "load"
                  THEN LoadPluginResume(plugins, plugins.calls[n])
                  ELSE UnloadPluginResume(plugins, plugins.calls[n])
    /\ UNCHANGED <<commands, regLog, now, call, parser, container, emitter, agent, retry, shell>>

NextPlugins ==
    \/ \E name \in PluginNames, plugin \in Plugins : LoadPlugin(name, plugin)
    \/ \E name \in PluginNames : UnloadPlugin(name)
    \/ \E n \in 1..MaxPluginCalls : PluginCallSettles(n)

SpecPlugins == InitPlugins /\ [][NextPlugins]_vars

\* The events the manager emitted in a call.
EventsOf(n) == SelectSeq(plugins.events, LAMBDA e : e.call = n)

FailedLoad(e) == e.op = "load" /\ e.settled.threw

\* C11 as stated: when initialize throws, loadPlugin rejects with the same
\* error and emits no plugin:loaded, and afterwards isPluginLoaded(name) is
\* false and name is not in getLoadedPlugins().
C11_AsStated ==
    \A i \in 1..Len(plugins.log) :
        LET e == plugins.log[i]
        IN  FailedLoad(e) =>
                /\ e.outcome = "threw"
                /\ e.error = e.settled.error
                /\ EventsOf(e.n) = <<>>
                /\ ~IsPluginLoaded(e.after, e.name)
                /\ e.name \notin GetLoadedPlugins(e.after)

\* C11 amended: when initialize throws, loadPlugin rejects with the same
\* error, emits no plugin:loaded and leaves the loaded plugins as they
\* were: the failing plugin is not recorded, and name is loaded afterwards
\* exactly when a plugin was loaded under it before, which stays loaded.
C11_FailedLoadChangesNothing ==
    \A i \in 1..Len(plugins.log) :
        LET e == plugins.log[i]
        IN  FailedLoad(e) =>
                /\ e.outcome = "threw"
                /\ e.error = e.settled.error
                /\ EventsOf(e.n) = <<>>
                /\ e.after = e.before
                /\ IsPluginLoaded(e.after, e.name) <=> IsPluginLoaded(e.before, e.name)
                /\ IsPluginLoaded(e.after, e.name) => e.after[e.name] # e.plugin

\* A plugin whose initialize throws was loaded under a name that no plugin
\* had: the call threw and the name is still not loaded.
C11_Witness ==
    \E i \in 1..Len(plugins.log) :
        /\ FailedLoad(plugins.log[i])
        /\ plugins.log[i].outcome = "threw"
        /\ ~IsPluginLoaded(plugins.log[i].after, plugins.log[i].name)

NotFoundOutcome(e) ==
    /\ ~e.found
    /\ ~e.shutdownCalled
    /\ e.outcome = "returned"
    /\ EventsOf(e.n) = <<>>
    /\ e.after = e.before

UnloadedOutcome(e) ==
    /\ e.found
    /\ e.shutdownCalled
    /\ ~e.settled.threw
    /\ e.outcome = "returned"
    /\ e.after = MapDelete(e.before, e.name)
    /\ ~IsPluginLoaded(e.after, e.name)
    /\ EventsOf(e.n) = <<PluginEvent("plugin:unloaded", e.name, e.n, e.after)>>

ShutdownFailedOutcome(e) ==
    /\ e.found
    /\ e.shutdownCalled
    /\ e.settled.threw
    /\ e.outcome = "threw"
    /\ e.error = e.settled.error
    /\ e.after = e.before
    /\ EventsOf(e.n) = <<>>

\* C12: unloadPlugin(name) ends in one of three ways: no plugin is
\* recorded under name and it returns without calling a shutdown and
\* without an event; shutdown succeeds, the record is removed and
\* plugin:unloaded is emitted after the removal; or shutdown throws, the
\* error is thrown again, the records are left as they were and there is
\* no event.
C12_UnloadHasThreeOutcomes ==
    \A i \in 1..Len(plugins.log) :
        LET e == plugins.log[i]
        IN  e.op = "unload" =>
                /\ NotFoundOutcome(e) \/ UnloadedOutcome(e) \/ ShutdownFailedOutcome(e)
                /\ e.found <=> e.plugin # None
                /\ (e.found /\ ~e.settled.threw) => UnloadedOutcome(e)
                /\ (e.found /\ e.settled.threw) => ShutdownFailedOutcome(e)

\* One unloadPlugin failed in shutdown and left its record, and another
\* removed a record and emitted plugin:unloaded.
C12_Witness ==
    /\ \E i \in 1..Len(plugins.log) :
          /\ plugins.log[i].op = "unload"
          /\ ShutdownFailedOutcome(plugins.log[i])
          /\ IsPluginLoaded(plugins.log[i].after, plugins.log[i].name)
    /\ \E i \in 1..Len(plugins.log) :
          /\ plugins.log[i].op = "unload"
          /\ UnloadedOutcome(plugins.log[i])

\* C24 as stated: a loadPlugin call that rejects leaves the command
\* registry as it was before the call: nothing that initialize registered
\* before it threw stays registered.
C24_AsStated ==
    \A i \in 1..Len(plugins.log) :
        LET e == plugins.log[i]
        IN  FailedLoad(e) => e.registryAfter = e.registryBefore

\* The plugins that loadedPlugins has held at some time: each was recorded
\* by a loadPlugin call whose initialize succeeded.
Initialized ==
    {plugins.loadedPlugins[k] : k \in DOMAIN plugins.loadedPlugins}
      \cup UNION {{plugins.log[i].before[k] : k \in DOMAIN plugins.log[i].before} :
                      i \in 1..Len(plugins.log)}
      \cup UNION {{plugins.log[i].after[k] : k \in DOMAIN plugins.log[i].after} :
                      i \in 1..Len(plugins.log)}

\* The plugins whose shutdown has been invoked, by a call that is over or
\* by one that is awaiting.
ShutdownInvoked ==
    {plugins.log[i].plugin[1] :
        i \in {j \in 1..Len(plugins.log) :
                  plugins.log[j].op = "unload" /\ plugins.log[j].shutdownCalled}}
      \cup {plugins.calls[n].plugin[1] :
                n \in {j \in DOMAIN plugins.calls :
                          plugins.calls[j].op = "unload" /\ plugins.calls[j].shutdownCalled}}

\* C25 as stated: every plugin whose initialize succeeded under loadPlugin
\* is recorded in loadedPlugins or has had its shutdown invoked, also when
\* loadPlugin is called with a name that is already loaded.
C25_AsStated ==
    \A p \in Initialized :
        \/ \E k \in DOMAIN plugins.loadedPlugins : plugins.loadedPlugins[k] = p
        \/ p \in ShutdownInvoked

\* The events of the manager about one plugin name.
EventsAbout(name) == SelectSeq(plugins.events, LAMBDA e : e.pluginName = name)

\* C26 as stated: overlapping unloadPlugin calls for one loaded plugin
\* invoke its shutdown at most once and emit plugin:unloaded at most once
\* for that load.
C26_AsStated ==
    /\ \A a, b \in DOMAIN plugins.calls :
          (/\ a # b
           /\ plugins.calls[a].op = "unload"
           /\ plugins.calls[b].op = "unload"
           /\ plugins.calls[a].name = plugins.calls[b].name)
              => ~(plugins.calls[a].shutdownCalled /\ plugins.calls[b].shutdownCalled)
    /\ \A name \in PluginNames :
          \A i \in 1..(Len(EventsAbout(name)) - 1) :
              ~(/\ EventsAbout(name)[i].event = "plugin:unloaded"
                /\ EventsAbout(name)[i + 1].event = "plugin:unloaded")

(***************************************************************************)
(* The agent adapter: ProgrammaticCLIAgent.  Its tools are built once, by  *)
(* the constructor, from registry.getAll(); a tool's execute builds a      *)
(* context from the args map and calls engine.executeCommand with the name *)
(* of its command.  An args map is the sequence of its entries in the      *)
(* order of enumeration, or None for a missing map.  agent.built is the    *)
(* registry the constructor read, agent.registry the registry as it was    *)
(* when the tool called the dispatcher, and agent.command the command the  *)
(* dispatcher found.                                                       *)
(***************************************************************************)
sLtNum1 == <<"<", "n", "u", "m", "1", ">">>
sLtNum2 == <<"<", "n", "u", "m", "2", ">">>
sLtMessage == <<"<", "m", "e", "s", "s", "a", "g", "e", ">">>
sOptCommandName == <<"[", "c", "o", "m", "m", "a", "n", "d", "-", "n", "a", "m", "e", "]">>

\* command.description
CommandDescription(command) ==
    CASE command.kind = "help" -> "Display help information for available commands"
      [] command.kind = "version" -> "Display CLI version"
      [] command.kind = "status" -> "Display CLI status and loaded modules"
      [] command.kind = "echo" -> "Echo back the provided input (useful for testing)"
      [] command.kind = "add" -> "Add two numbers"
      [] command.kind = "subtract" -> "Subtract two numbers"
      [] command.kind = "multiply" -> "Multiply two numbers"
      [] OTHER -> command.kind

\* command.usage, as its words.
CommandUsage(command) ==
    CASE command.kind = "help" -> <<sHelp, sOptCommandName>>
      [] command.kind = "echo" -> <<sEcho, sLtMessage>>
      [] command.kind \in {"add", "subtract", "multiply"} -> <<command.name, sLtNum1, sLtNum2>>
      [] OTHER -> <<command.name>>

EndsWith(s, p) == Len(s) >= Len(p) /\ SubSeq(s, Len(s) - Len(p) + 1, Len(s)) = p

\* part.replace(/[<>]/g, '')
StripAngles(part) == SelectSeq(part, LAMBDA c : c \notin {"<", ">"})

\* parseUsageToParameters(usage): the words after the first that are in
\* angle brackets, each as a required string parameter.
ParseUsageToParameters(usage) ==
    LET parts == SelectSeq(Tail(usage),
                           LAMBDA part : StartsWith(part, <<"<">>) /\ EndsWith(part, <<">">>))
    IN  [i \in 1..Len(parts) |->
            [name |-> StripAngles(parts[i]), type |-> "string", required |-> TRUE]]

\* The tool built for a command; its execute calls the command by name.
Tool(command) ==
    [name |-> command.name, description |-> CommandDescription(command),
     parameters |-> ParseUsageToParameters(CommandUsage(command)),
     commandName |-> command.name]

\* buildToolsFromCommands(): a tool for every command of getAll(), under
\* the command's name as it is written.
BuildToolsFromCommands(cmds) ==
    [n \in {cmds[k].name : k \in DOMAIN cmds} |->
        Tool(CHOOSE c \in {cmds[k] : k \in DOMAIN cmds} : c.name = n)]

\* A mutant of AgentGetTools: the tools are built from the registry at
\* every call.
AgentGetToolsLive(a, cmds) ==
    {BuildToolsFromCommands(cmds)[n] : n \in DOMAIN BuildToolsFromCommands(cmds)}

\* getTools(), as a set, and getTool(toolName).
AgentGetTools(a, cmds) == {a.tools[n] : n \in DOMAIN a.tools}

AgentGetTool(a, toolName) ==
    IF toolName \in DOMAIN a.tools THEN Some(a.tools[toolName]) ELSE None

ToolResult(success, data, error, message) ==
    [success |-> success, data |-> data, error |-> error, message |-> message]

\* Object.values(params), in the order of enumeration.
ObjectValues(params) == [i \in 1..Len(params) |-> params[i].value]

ParamsObject(params) ==
    [k \in {params[i].key : i \in 1..Len(params)} |->
        (CHOOSE e \in {params[i] : i \in 1..Len(params)} : e.key = k).value]

\* The context a tool's execute builds from its params.
ToolContext(params) ==
    [arguments |-> SelectSeq(ObjectValues(params), Truthy),
     options |-> ParamsObject(params),
     outputFormat |-> "json",
     verbose |-> \E i \in 1..Len(params) :
                    params[i].key = "verbose" /\ params[i].value = BoolValue(TRUE)]

\* The TypeError of Object.values(undefined).
ObjectValuesTypeError == ErrorValue("TypeError", "Cannot convert undefined or null to object")

\* The catch block of agent.execute: error.message of an Error, String of
\* anything else.
AgentCatch(error) ==
    ToolResult(FALSE, None,
               CASE error.type = "Error" -> error.message
                 [] error.type = "undefined" -> Some("undefined"),
               None)

\* A mutant of AgentExecuteResume: an exception of the tool is not caught.
AgentExecuteResumeUncaught(a, c) ==
    IF c.pc = "returned"
    THEN [a EXCEPT !.pc = "done", !.command = c.command,
                   !.outcome = Some(ToolResult(c.result[1].success, c.result[1].data,
                                               c.result[1].error, c.result[1].message))]
    ELSE [a EXCEPT !.pc = "done", !.command = c.command, !.raised = c.thrown,
                   !.threw = TRUE]

\* agent.execute from the settling of executeCommand to its return.
AgentExecuteResume(a, c) ==
    IF c.pc = "returned"
    THEN [a EXCEPT !.pc = "done", !.command = c.command,
                   !.outcome = Some(ToolResult(c.result[1].success, c.result[1].data,
                                               c.result[1].error, c.result[1].message))]
    ELSE [a EXCEPT !.pc = "done", !.command = c.command, !.raised = c.thrown,
                   !.outcome = Some(AgentCatch(c.thrown[1]))]

\* A mutant of ToolRegistry: a tool keeps the commands of the construction.
ToolRegistryAtConstruction(a, cmds) == a.built

\* The registry a tool's execute resolves its command's name in: the
\* dispatcher's, as it is when the tool runs.
ToolRegistry(a, cmds) == cmds

Entry(key, value) == [key |-> key, value |-> value]

\* { arguments: ['5', '3'] }
ExampleArgs == Some(<<Entry("arguments", ArrayValue(<<sFive, sThree>>))>>)

AgentArgs ==
    {None,
     Some(<<>>),
     ExampleArgs,
     Some(<<Entry("a", StrValue(sFive)), Entry("b", StrValue(sThree))>>),
     Some(<<Entry("0", StrValue(sFive)), Entry("1", StrValue(sThree)),
            Entry("arguments", ArrayValue(<<sFive, sThree>>))>>),
     Some(<<Entry("a", StrValue(sFive)), Entry("b", StrValue(<<>>))>>),
     Some(<<Entry("verbose", BoolValue(TRUE)), Entry("a", StrValue(sFive)),
            Entry("b", StrValue(sThree))>>)}

AgentNames == {sAdd, sX, sNo}

\* The registry with the calculator plugin loaded.
CalculatorRegistry == PluginInitialize(CalculatorPlugin, BootstrapRegistry).commands

ThrowingCommand == [name |-> sX, kind |-> "throwsUndefined"]

\* The commands registered and the names unregistered while the agent is
\* in use: another command under the name add, and a command of a plugin.
AgentRegisters == {[name |-> sAdd, kind |-> "multiply"], ThrowingCommand}
AgentUnregisters == {sAdd}

InitAgent ==
    /\ retry = NoRetry
    /\ shell = NoShell
    /\ commands \in {CalculatorRegistry, RegistryRegister(CalculatorRegistry, ThrowingCommand)}
    /\ regLog = <<>>
    /\ now = 0
    /\ call = IdleCall
    /\ parser = NoParse
    /\ container = NewContainer
    /\ emitter = NewEmitter
    /\ plugins = NewPluginManager
    /\ agent = NoAgent

\* new ProgrammaticCLIAgent(engine, registry)
NewAgent ==
    /\ agent.pc = "none"
    /\ agent' = [NoAgent EXCEPT !.tools = BuildToolsFromCommands(commands),
                                !.built = commands,
                                !.pc = "idle"]
    /\ UNCHANGED <<commands, regLog, now, call, parser, container, emitter, plugins, retry, shell>>

\* agent.execute(commandName, args), to its return when there is no such
\* tool or the tool throws at once, and to the await of executeCommand
\* otherwise.
AgentExecute(commandName, args) ==
    /\ agent.pc = "idle"
    /\ call.pc = "idle"
    /\ LET a == [agent EXCEPT !.name = commandName, !.args = args]
       IN  IF commandName \notin DOMAIN agent.tools
           THEN /\ agent' = [a EXCEPT !.pc = "done",
                                      !.outcome = Some(ToolResult(FALSE, None,
                                          Some("Tool '" \o Text(commandName) \o "' not found"),
                                          None))]
                /\ call' = call
           ELSE IF args = None
           THEN /\ agent' = [a EXCEPT !.pc = "done",
                                      !.raised = Some(ObjectValuesTypeError),
                                      !.outcome = Some(AgentCatch(ObjectValuesTypeError))]
                /\ call' = call
           ELSE /\ agent' = [a EXCEPT !.pc = "running", !.dispatched = TRUE,
                                      !.registry = commands,
                                      !.ctx = Some(ToolContext(args[1]))]
                /\ call' = Settle(BeginExecuteCommand(
                                      [IdleCall EXCEPT !.entry = "agent",
                                                       !.name = agent.tools[commandName].commandName,
                                                       !.ctx = ToolContext(args[1]),
                                                       !.startTime = now],
                                      ToolRegistry(agent, commands), 0, now), now)
    /\ UNCHANGED <<commands, regLog, now, parser, container, emitter, plugins, retry, shell>>

\* executeCommand has settled and agent.execute runs to its return.
AgentExecuteSettles ==
    /\ agent.pc = "running"
    /\ call.pc \in {"returned", "threw"}
    /\ agent' = AgentExecuteResume(agent, call)
    /\ call' = IdleCall
    /\ UNCHANGED <<commands, regLog, now, parser, container, emitter, plugins, retry, shell>>

\* The caller has taken the outcome of agent.execute.
AgentReturned ==
    /\ agent.pc = "done"
    /\ agent' = [NoAgent EXCEPT !.tools = agent.tools, !.built = agent.built, !.pc = "idle"]
    /\ UNCHANGED <<commands, regLog, now, call, parser, container, emitter, plugins, retry, shell>>

NextAgent ==
    \/ NewAgent
    \/ \E commandName \in AgentNames, args \in AgentArgs : AgentExecute(commandName, args)
    \/ ExecuteSettles
    \/ AgentExecuteSettles
    \/ AgentReturned
    \/ \E command \in AgentRegisters : Register(command)
    \/ \E commandName \in AgentUnregisters : Unregister(commandName)

SpecAgent == InitAgent /\ [][NextAgent]_vars

\* The commands of a registry.
CommandsOf(cmds) == {cmds[k] : k \in DOMAIN cmds}

\* C15: the tools of an agent are those of the commands registered when it
\* was constructed: getTools() and getTool(n) give exactly these, with the
\* name, description and parameters the commands had then, whatever is
\* registered or unregistered afterwards.
C15_ToolsFixedAtConstruction ==
    agent.pc # "none" =>
        /\ AgentGetTools(agent, commands) = {Tool(c) : c \in CommandsOf(agent.built)}
        /\ \A n \in AgentNames \cup {sEcho, sMultiply, sUpperX} :
              AgentGetTool(agent, n) =
                  IF \E c \in CommandsOf(agent.built) : c.name = n
                  THEN Some(Tool(CHOOSE c \in CommandsOf(agent.built) : c.name = n))
                  ELSE None

\* After the construction add was unregistered and x registered: the agent
\* still has the tool add, with its two parameters, and no tool x.
C15_Witness ==
    /\ agent.pc # "none"
    /\ RegistryGet(commands, sAdd) = None
    /\ RegistryGet(commands, sX) # None
    /\ AgentGetTool(agent, sX) = None
    /\ AgentGetTool(agent, sAdd) # None
    /\ AgentGetTool(agent, sAdd)[1].description = "Add two numbers"
    /\ Len(AgentGetTool(agent, sAdd)[1].parameters) = 2

\* C16: agent.execute never throws: for a name that has no tool it returns
\* success = false with the error "Tool '<name>' not found" and does not
\* call the dispatcher, and an exception raised while the tool runs is
\* returned as success = false with the exception's message as error.
C16_ExecuteNeverThrows ==
    agent.pc = "done" =>
        /\ ~agent.threw
        /\ agent.outcome # None
        /\ agent.name \notin DOMAIN agent.tools =>
              /\ ~agent.dispatched
              /\ agent.outcome[1] =
                    ToolResult(FALSE, None,
                               Some("Tool '" \o Text(agent.name) \o "' not found"), None)
        /\ agent.raised # None =>
              /\ ~agent.outcome[1].success
              /\ agent.outcome[1].error = agent.raised[1].message

\* executeCommand threw while a tool ran, and agent.execute returned the
\* message of the exception.
C16_Witness ==
    /\ agent.pc = "done"
    /\ agent.dispatched
    /\ agent.raised = Some(TypeErrorValue)
    /\ agent.outcome # None
    /\ agent.outcome[1].error = TypeErrorValue.message

\* C17 as stated: with the calculator loaded and the registry as the plugin
\* left it, agent.execute('add',
\* {arguments: ['5', '3']}) runs add on the arguments '5' and '3' and
\* returns success with result 8 in its data: the elements of the array
\* under arguments are the positional arguments of the command.
C17_AsStated ==
    (agent.pc = "done" /\ agent.name = sAdd /\ agent.args = ExampleArgs
        /\ regLog = <<>>
        /\ RegistryGet(commands, sAdd) = Some(AddCommand)) =>
        /\ agent.ctx # None
        /\ agent.ctx[1].arguments = <<StrValue(sFive), StrValue(sThree)>>
        /\ agent.outcome[1].success
        /\ agent.outcome[1].data # None
        /\ agent.outcome[1].data[1].result = 8

\* { a: '5', b: '3' }
TwoNumbers == Some(<<Entry("a", StrValue(sFive)), Entry("b", StrValue(sThree))>>)

\* C27: a tool resolves its command by name when it runs.  When the name
\* has been unregistered, agent.execute returns a failure with the error of
\* a command that is not found, without throwing and without running the
\* command of the construction; when the name has been registered again
\* with another command, agent.execute runs that command, while getTool
\* still gives the description and parameters of the first.
C27_ResolvedAtExecution ==
    (agent.pc = "done" /\ agent.dispatched) =>
        /\ agent.command = RegistryGet(agent.registry, agent.name)
        /\ AgentGetTool(agent, agent.name) =
              Some(Tool(CHOOSE c \in CommandsOf(agent.built) : c.name = agent.name))
        /\ agent.command = None =>
              /\ ~agent.threw
              /\ agent.raised = None
              /\ agent.outcome =
                    Some(ToolResult(FALSE, None,
                                    Some("Command not found: '" \o Text(agent.name) \o "'"),
                                    None))
        /\ (/\ agent.command # None
            /\ agent.command[1].kind \in {"add", "multiply"}
            /\ agent.args = TwoNumbers) =>
              /\ agent.outcome[1].success
              /\ agent.outcome[1].data[1].result =
                    CASE agent.command[1].kind = "add" -> 8
                      [] agent.command[1].kind = "multiply" -> 15

\* add was registered again as a command that multiplies: the tool add,
\* still described as an addition, returned 15 for 5 and 3.
C27_Witness ==
    /\ agent.pc = "done"
    /\ agent.dispatched
    /\ agent.name = sAdd
    /\ agent.args = TwoNumbers
    /\ agent.command = Some([name |-> sAdd, kind |-> "multiply"])
    /\ agent.outcome[1].data[1].result = 15
    /\ AgentGetTool(agent, sAdd)[1].description = "Add two numbers"
    /\ Len(AgentGetTool(agent, sAdd)[1].parameters) = 2

\* The names the agent is asked for.
ToolQueries == AgentNames \cup {sUpperEcho, sEcho, sMultiply}

\* C29 as stated: getTool(n) gives a tool, and agent.execute(n) reaches the
\* dispatcher, exactly when registry.exists(n) was true at the
\* construction, also for names that differ in letter case only.
C29_AsStated ==
    /\ agent.pc # "none" =>
          \A n \in ToolQueries :
              (AgentGetTool(agent, n) # None) <=> RegistryExists(agent.built, n)
    /\ (agent.pc = "done" /\ agent.args # None) =>
          (agent.dispatched <=> RegistryExists(agent.built, agent.name))

(***************************************************************************)
(* RetryableCommand.execute: up to maxRetries attempts, each failing or    *)
(* not as Math.random() decides, with a timer of delayMs between two       *)
(* attempts.  The options retries and delay are absent (None), the boolean *)
(* true or a text of digits; the clock advances by delayMs when the timer  *)
(* fires.  retry.trace is the attempts made and the timers set, in order.  *)
(***************************************************************************)
MaxRetryCount == 4

\* A value that `||` replaces by its right operand: undefined and ''.
Falsy(v) == v = None \/ v[1] = OptStr(<<>>)

\* Number(v) for true and for texts of digits.
ToNumber(v) == IF v.type = "boolean" THEN 1 ELSE DigitsPrefix(v.str, 0)

\* Number(v || d)
NumberOr(v, d) == IF Falsy(v) THEN d ELSE ToNumber(v[1])

RandomFailure == ErrorValue("Error", "Random failure (simulated)")

AttemptMade(n, failed) == [kind |-> "attempt", n |-> n, failed |-> failed, ms |-> 0]
TimerSet(n, ms) == [kind |-> "timer", n |-> n, failed |-> FALSE, ms |-> ms]

\* The Result returned after the loop.
RetryFailure(r, t) ==
    Result(FALSE,
           Some([attempt |-> r.attempt, maxRetries |-> r.maxRetries]),
           Some("Failed after " \o ToString(r.maxRetries) \o " attempts: "
                \o (IF r.lastError = None THEN "undefined" ELSE r.lastError[1].message[1])),
           None,
           t - r.startTime)

\* The Result returned by an attempt that does not fail.
RetrySuccess(r, t) ==
    Result(TRUE,
           Some([attempt |-> r.attempt, maxRetries |-> r.maxRetries]),
           None,
           Some("Success on attempt " \o ToString(r.attempt)),
           t - r.startTime)

\* A mutant of RetryLoop: the timer is set after every failed attempt.
RetryLoopAlwaysWaits(r, fails, t) ==
    IF ~(r.attempt < r.maxRetries)
    THEN [r EXCEPT !.pc = "returned", !.result = Some(RetryFailure(r, t))]
    ELSE LET a == [r EXCEPT !.attempt = @ + 1]
         IN  IF ~fails
             THEN [a EXCEPT !.pc = "returned",
                            !.trace = Append(@, AttemptMade(a.attempt, FALSE)),
                            !.result = Some(RetrySuccess(a, t))]
             ELSE [a EXCEPT !.pc = "sleeping",
                            !.lastError = Some(RandomFailure),
                            !.trace = @ \o <<AttemptMade(a.attempt, TRUE),
                                             TimerSet(a.attempt, a.delayMs)>>]

\* The while loop from its condition to the next await or to the return:
\* fails is whether Math.random() > 0.7 in the attempt, t the clock.
RetryLoop(r, fails, t) ==
    IF ~(r.attempt < r.maxRetries)
    THEN [r EXCEPT !.pc = "returned", !.result = Some(RetryFailure(r, t))]
    ELSE LET a == [r EXCEPT !.attempt = @ + 1]
         IN  IF ~fails
             THEN [a EXCEPT !.pc = "returned",
                            !.trace = Append(@, AttemptMade(a.attempt, FALSE)),
                            !.result = Some(RetrySuccess(a, t))]
             ELSE LET f == [a EXCEPT !.lastError = Some(RandomFailure),
                                     !.trace = Append(@, AttemptMade(a.attempt, TRUE))]
                  IN  IF f.attempt < f.maxRetries
                      THEN [f EXCEPT !.pc = "sleeping",
                                     !.trace = Append(@, TimerSet(f.attempt, f.delayMs))]
                      ELSE [f EXCEPT !.pc = "returned",
                                     !.result = Some(RetryFailure(f, t))]

\* context.options.retries and context.options.delay
RetryCounts ==
    {None, Some(OptTrue), Some(OptStr(<<>>))}
      \cup {Some(OptStr(<<c>>)) : c \in {d \in Digits : DigitValue(d) <= MaxRetryCount}}

RetryDelays == {None, Some(OptTrue), Some(OptStr(<<"0">>)), Some(OptStr(sFive))}

InitRetry ==
    /\ commands = EmptyRegistry
    /\ regLog = <<>>
    /\ now = 0
    /\ call = IdleCall
    /\ parser = NoParse
    /\ container = NewContainer
    /\ emitter = NewEmitter
    /\ plugins = NewPluginManager
    /\ agent = NoAgent
    /\ retry = NoRetry
    /\ shell = NoShell

\* command.execute(context), to its first await or to its return.
RetryExecute(retries, delay, fails) ==
    /\ retry.pc = "none"
    /\ retry' = RetryLoop([NoRetry EXCEPT !.pc = "running",
                                          !.retries = retries,
                                          !.delay = delay,
                                          !.startTime = now,
                                          !.maxRetries = NumberOr(retries, 3),
                                          !.delayMs = NumberOr(delay, 1000)],
                          fails, now)
    /\ UNCHANGED <<commands, regLog, now, call, parser, container, emitter, plugins, agent, shell>>

\* The timer fires and the loop goes on.
TimerFires(fails) ==
    /\ retry.pc = "sleeping"
    /\ now' = now + retry.delayMs
    /\ retry' = RetryLoop([retry EXCEPT !.pc = "running"], fails, now')
    /\ UNCHANGED <<commands, regLog, call, parser, container, emitter, plugins, agent, shell>>

NextRetry ==
    \/ \E retries \in RetryCounts, delay \in RetryDelays, fails \in BOOLEAN :
          RetryExecute(retries, delay, fails)
    \/ \E fails \in BOOLEAN : TimerFires(fails)

\* A timer that was set fires.
SpecRetry ==
    InitRetry /\ [][NextRetry]_vars /\ WF_vars(\E fails \in BOOLEAN : TimerFires(fails))

Attempts == SelectSeq(retry.trace, LAMBDA e : e.kind = "attempt")
Timers == SelectSeq(retry.trace, LAMBDA e : e.kind = "timer")

\* What holds at every moment of a run of execute.
RetryInvariant ==
    /\ ~retry.threw
    /\ retry.attempt <= retry.maxRetries
    /\ Len(Attempts) = retry.attempt
    /\ \A i \in 1..Len(Attempts) :
          Attempts[i].failed \/ (i = Len(Attempts) /\ retry.pc = "returned")
    /\ \A i \in 1..Len(retry.trace) :
          retry.trace[i].kind = "timer" =>
              /\ retry.trace[i].ms = retry.delayMs
              /\ i > 1
              /\ retry.trace[i - 1].kind = "attempt"
              /\ retry.trace[i - 1].failed
              /\ retry.pc = "returned" =>
                    (i < Len(retry.trace) /\ retry.trace[i + 1].kind = "attempt")
    /\ retry.pc = "sleeping" => retry.trace[Len(retry.trace)].kind = "timer"
    /\ retry.pc = "returned" =>
          /\ retry.result # None
          /\ Len(Timers) = (IF retry.attempt = 0 THEN 0 ELSE retry.attempt - 1)
          /\ retry.result[1].success =>
                /\ retry.attempt >= 1
                /\ ~Attempts[retry.attempt].failed
                /\ retry.result[1].data[1].attempt = retry.attempt
          /\ ~retry.result[1].success =>
                /\ retry.attempt = retry.maxRetries
                /\ \A i \in 1..Len(Attempts) : Attempts[i].failed
                /\ retry.result[1].error # None
    /\ retry.pc # "none" =>
          retry.maxRetries = (IF Falsy(retry.retries) THEN 3 ELSE ToNumber(retry.retries[1]))

MaxArgs == 3

sSearch == <<"s", "e", "a", "r", "c", "h">>
sGenerateImage == <<"g", "e", "n", "e", "r", "a", "t", "e", "-", "i", "m", "a", "g", "e">>
sAnalyzeWebsite == <<"a", "n", "a", "l", "y", "z", "e", "-", "w", "e", "b", "s", "i", "t", "e">>
sCats == <<"c", "a", "t", "s">>
sUrl == <<"h", "t", "t", "p", "s", ":", "/", "/", "a">>
sHttp == <<"h", "t", "t", "p", ":", "/", "/">>
sHttps == <<"h", "t", "t", "p", "s", ":", "/", "/">>
sDDOutput == <<"-", "-", "o", "u", "t", "p", "u", "t">>
sRMd == <<"r", ".", "m", "d">>
sDDSize == <<"-", "-", "s", "i", "z", "e">>
sSquare == <<"1", "0", "2", "4", "x", "1", "0", "2", "4">>
sTall == <<"1", "0", "2", "4", "x", "1", "7", "9", "2">>
sWide == <<"1", "7", "9", "2", "x", "1", "0", "2", "4">>
sDDQuality == <<"-", "-", "q", "u", "a", "l", "i", "t", "y">>
sStandard == <<"s", "t", "a", "n", "d", "a", "r", "d">>
sHd == <<"h", "d">>
sDDFullpage == <<"-", "-", "f", "u", "l", "l", "p", "a", "g", "e">>
sDDJson == <<"-", "-", "j", "s", "o", "n">>
sOutputJson == <<"-", "-", "o", "u", "t", "p", "u", "t", "=", "j", "s", "o", "n">>
sDashVJ == <<"-", "v", "j">>

WebSearchCommand == [name |-> sSearch, kind |-> "search"]
GenerateImageCommand == [name |-> sGenerateImage, kind |-> "generate-image"]
ScreenshotAnalyzeCommand == [name |-> sAnalyzeWebsite, kind |-> "analyze-website"]

\* The registry after the three plugins were loaded.
PluginRegistry ==
    RegistryRegister(RegistryRegister(RegistryRegister(
        BootstrapRegistry, WebSearchCommand), GenerateImageCommand), ScreenshotAnalyzeCommand)

\* validate of the three commands.
PluginCommandValidate(command, ctx) ==
    CASE command.kind = "search" ->
            IF Len(ctx.arguments) < 1 THEN Returns(FALSE, <<"Search query required">>)
            ELSE Returns(TRUE, <<>>)
      [] command.kind = "generate-image" ->
            IF Len(ctx.arguments) < 1 THEN Returns(FALSE, <<"Image prompt required">>)
            ELSE Returns(TRUE, <<>>)
      [] command.kind = "analyze-website" ->
            IF Len(ctx.arguments) < 1 THEN Returns(FALSE, <<"Website URL required">>)
            ELSE IF ~StartsWith(ctx.arguments[1], sHttp) /\ ~StartsWith(ctx.arguments[1], sHttps)
            THEN Returns(FALSE, <<"URL must start with http:// or https://">>)
            ELSE Returns(TRUE, <<>>)
      [] OTHER -> Returns(TRUE, <<>>)

\* What execute has read before its loop over the arguments: words are the
\* arguments appended to the query or prompt, each after a space.
NothingSeen(kind) ==
    [kind |-> kind, words |-> <<>>, url |-> None, size |-> sSquare, quality |-> sStandard,
     fullPage |-> FALSE, outputFile |-> None]

\* The loop of WebSearchCommand.execute from args[i] on (i counts from 1).
RECURSIVE WebSearchScan(_, _, _)
WebSearchScan(args, i, seen) ==
    IF i > Len(args) THEN seen
    ELSE IF args[i] = sDDOutput /\ i + 1 <= Len(args)
    THEN WebSearchScan(args, i + 2, [seen EXCEPT !.outputFile = Some(args[i + 1])])
    ELSE WebSearchScan(args, i + 1, [seen EXCEPT !.words = Append(@, args[i])])

\* The loop of GenerateImageCommand.execute.
RECURSIVE GenerateImageScan(_, _, _)
GenerateImageScan(args, i, seen) ==
    IF i > Len(args) THEN seen
    ELSE IF args[i] = sDDSize /\ i + 1 <= Len(args)
    THEN GenerateImageScan(args, i + 2,
             [seen EXCEPT !.size = IF args[i + 1] \in {sSquare, sTall, sWide}
                                   THEN args[i + 1] ELSE @])
    ELSE IF args[i] = sDDQuality /\ i + 1 <= Len(args)
    THEN GenerateImageScan(args, i + 2,
             [seen EXCEPT !.quality = IF args[i + 1] \in {sStandard, sHd}
                                      THEN args[i + 1] ELSE @])
    ELSE IF args[i] = sDDOutput /\ i + 1 <= Len(args)
    THEN GenerateImageScan(args, i + 2, [seen EXCEPT !.outputFile = Some(args[i + 1])])
    ELSE GenerateImageScan(args, i + 1, [seen EXCEPT !.words = Append(@, args[i])])

\* The loop of ScreenshotAnalyzeCommand.execute, which starts after the url.
RECURSIVE ScreenshotAnalyzeScan(_, _, _)
ScreenshotAnalyzeScan(args, i, seen) ==
    IF i > Len(args) THEN seen
    ELSE IF args[i] = sDDFullpage
    THEN ScreenshotAnalyzeScan(args, i + 1, [seen EXCEPT !.fullPage = TRUE])
    ELSE IF args[i] = sDDOutput /\ i + 1 <= Len(args)
    THEN ScreenshotAnalyzeScan(args, i + 2, [seen EXCEPT !.outputFile = Some(args[i + 1])])
    ELSE ScreenshotAnalyzeScan(args, i + 1, seen)

\* What the execute of a command reads from context.arguments; None for
\* the commands that are not of the three plugins.
PluginCommandScan(command, ctx) ==
    CASE command.kind = "search" ->
            Some(WebSearchScan(ctx.arguments, 1, NothingSeen("search")))
      [] command.kind = "generate-image" ->
            Some(GenerateImageScan(ctx.arguments, 1, NothingSeen("generate-image")))
      [] command.kind = "analyze-website" ->
            Some(ScreenshotAnalyzeScan(ctx.arguments, 2,
                     [NothingSeen("analyze-website") EXCEPT !.url = Some(ctx.arguments[1])]))
      [] OTHER -> None

\* args.includes(token)
Includes(args, token) == \E i \in 1..Len(args) : args[i] = token

\* The format main renders the Result in.
MainOutputFormat(args) ==
    IF Includes(args, sDDJson) \/ Includes(args, sDashJ) THEN "json" ELSE "text"

\* engine.execute(args) as far as the command's reading of its arguments:
\* the context the command is given and what its execute read from it.
ShellExecute(sh, args, cmds) ==
    LET context == ParseArguments(args)
    IN  IF Len(context.arguments) = 0
        THEN [sh EXCEPT !.pc = "executing", !.args = args]
        ELSE LET ctx == [context EXCEPT !.arguments = Tail(@)]
                 found == RegistryGet(cmds, context.arguments[1])
             IN  [sh EXCEPT !.pc = "executing",
                            !.args = args,
                            !.ctx = Some(ctx),
                            !.seen = IF found = None THEN None
                                     ELSE IF ~PluginCommandValidate(found[1], ctx).valid
                                     THEN None
                                     ELSE PluginCommandScan(found[1], ctx)]

ShellTokens ==
    {sSearch, sGenerateImage, sAnalyzeWebsite, sCats, sUrl, sDDOutput, sRMd, sDDSize, sTall,
     sDDFullpage, sDDJson, sDashJ, sFormatJson}

\* The command lines of the README and of the usage texts.
DocumentedLines ==
    {<<sSearch, sCats, sDDOutput, sRMd>>,
     <<sGenerateImage, sCats, sDDSize, sTall, sDDQuality, sHd>>,
     <<sGenerateImage, sCats, sDDOutput, sRMd>>,
     <<sAnalyzeWebsite, sUrl, sDDFullpage>>,
     <<sAnalyzeWebsite, sUrl, sDDOutput, sRMd>>,
     <<sHelp, sDDJson>>,
     <<sDashV, sHelp>>,
     <<sHelp, sOutputJson>>,
     <<sDashVJ, sHelp>>}

CommandLines == SeqsUpTo(ShellTokens, MaxArgs) \cup DocumentedLines

InitShell ==
    /\ commands = PluginRegistry
    /\ regLog = <<>>
    /\ now = 0
    /\ call = IdleCall
    /\ parser = NoParse
    /\ container = NewContainer
    /\ emitter = NewEmitter
    /\ plugins = NewPluginManager
    /\ agent = NoAgent
    /\ retry = NoRetry
    /\ shell = NoShell

\* main with process.argv.slice(2) = args, to the await of engine.execute;
\* with no arguments it runs help, renders it as text and exits.
Main(args) ==
    /\ shell.pc = "none"
    /\ shell' = IF Len(args) = 0
                THEN [NoShell EXCEPT !.pc = "exited", !.outputFormat = "text"]
                ELSE ShellExecute(shell, args, commands)
    /\ UNCHANGED <<commands, regLog, now, call, parser, container, emitter, plugins, agent, retry>>

\* engine.execute has settled: main formats the Result and exits.
MainRenders ==
    /\ shell.pc = "executing"
    /\ shell' = [shell EXCEPT !.pc = "exited", !.outputFormat = MainOutputFormat(shell.args)]
    /\ UNCHANGED <<commands, regLog, now, call, parser, container, emitter, plugins, agent, retry>>

NextShell ==
    \/ shell.pc = "none" /\ \E args \in CommandLines : Main(args)
    \/ MainRenders

SpecShell == InitShell /\ [][NextShell]_vars

\* The token occurs once in the command line, at position i.
OnlyAt(args, i) == \A j \in 1..Len(args) : args[j] = args[i] => j = i

\* The token is the value written after a flag: a word, not an option.
ValueAt(args, i) == i <= Len(args) /\ ~StartsWith(args[i], <<"-">>) /\ OnlyAt(args, i)

\* C21 as stated: when search, generate-image or analyze-website is run
\* through engine.execute with the flags of its usage text (--output
\* <filename>, --size <size>, --quality <q>, --fullpage), its execute sees
\* the flag, and the value of the flag is not taken into the query or
\* prompt.
C21_AsStated ==
    (shell.pc # "none" /\ shell.seen # None) =>
        \A i \in 1..Len(shell.args) :
            /\ (shell.args[i] = sDDOutput /\ ValueAt(shell.args, i + 1)) =>
                  /\ shell.seen[1].outputFile = Some(shell.args[i + 1])
                  /\ ~Includes(shell.seen[1].words, shell.args[i + 1])
            /\ (/\ shell.seen[1].kind = "generate-image"
                /\ shell.args[i] = sDDSize
                /\ ValueAt(shell.args, i + 1)
                /\ shell.args[i + 1] \in {sSquare, sTall, sWide}) =>
                  /\ shell.seen[1].size = shell.args[i + 1]
                  /\ ~Includes(shell.seen[1].words, shell.args[i + 1])
            /\ (/\ shell.seen[1].kind = "generate-image"
                /\ shell.args[i] = sDDQuality
                /\ ValueAt(shell.args, i + 1)
                /\ shell.args[i + 1] \in {sStandard, sHd}) =>
                  /\ shell.seen[1].quality = shell.args[i + 1]
                  /\ ~Includes(shell.seen[1].words, shell.args[i + 1])
            /\ (shell.seen[1].kind = "analyze-website" /\ shell.args[i] = sDDFullpage) =>
                  shell.seen[1].fullPage

\* C28 as stated: main renders JSON exactly when parseArguments gives
\* outputFormat = json for the same tokens (--format=json, --output=json,
\* -j, -vj), and text otherwise.
C28_AsStated ==
    shell.pc = "exited" =>
        (shell.outputFormat = "json" <=> ParseArguments(shell.args).outputFormat = "json")

====
